---- MODULE Spec2Model ----
(***************************************************************************)
(* A model of the PAWS workflow executor (paws/executor.py), its event log *)
(* (paws/state_manager.py), the workflow validation (paws/aol_parser.py)   *)
(* and the tool dispatch (paws/mcp_client.py, paws/validator.py).          *)
(*                                                                         *)
(* Representation.  A Python string is a sequence of word tokens; the two  *)
(* tokens QO and QC stand for a double quote that opens, respectively      *)
(* closes, a quoted operand (no blank between the quote and the operand).  *)
(* A reference {{id.key}} is one token, listed in Refs.  An Optional value *)
(* is a sequence of length at most one: None is << >>.  A dict is a record *)
(* or a function whose DOMAIN is the set of keys.  Event timestamps are    *)
(* left out: no code path reads them.                                      *)
(***************************************************************************)
EXTENDS Integers, Sequences, FiniteSets, TLC

VARIABLES
    wf,             \* the workflow document behind the .aol file (immutable)
    disk,           \* the event log file: [state, data]
    pc,             \* position of the running process; "idle" when none runs
    after,          \* where control goes once the pending file write is done
    resume,         \* the --resume flag of the current run
    events,         \* EventLog.events of the running process
    context,        \* ExecutorEngine.context
    loop_counters,  \* ExecutorEngine.loop_counters
    step_index,     \* run_workflow's step_index
    mode,           \* who called _execute_step: "main", "retry" or "fallback"
    cur,            \* index of the step _execute_step is working on
    attempt,        \* retries still to make in _handle_failure's retry loop
    result,         \* outcome of the last run: "none", "true", "false", "raised"
    runs,           \* number of runs started so far
    log0,           \* history: the log file as it was when the current run started
    ncalls,         \* history: call_tool invocations made by the current run
    sent,           \* history: the arguments of the run's latest call_tool
    acked           \* history: the events whose append has returned

vars == <<wf, disk, pc, after, resume, events, context, loop_counters,
          step_index, mode, cur, attempt, result, runs, log0, ncalls, sent, acked>>

----------------------------------------------------------------------------
(* Bounds of the model *)

MaxRuns == 2

MaxLog == 8

----------------------------------------------------------------------------
(* Generic helpers *)

None == << >>

Some(x) == <<x>>

IsNone(o) == Len(o) = 0

Get(o) == o[1]

Last(s) == s[Len(s)]

IsPrefix(s, t) == Len(s) <= Len(t) /\ SubSeq(t, 1, Len(s)) = s

Put(d, k, v) == [x \in (DOMAIN d) \cup {k} |-> IF x = k THEN v ELSE d[x]]

QO == "<quote"

QC == "quote>"

Refs ==
    { [tok |-> "{{s1.stdout}}",  id |-> "s1", key |-> "stdout"],
      [tok |-> "{{c.stdout}}",   id |-> "c",  key |-> "stdout"],
      [tok |-> "{{L.counter}}",  id |-> "L",  key |-> "counter"],
      [tok |-> "{{user_inputs.prompt}}", id |-> "user_inputs", key |-> "prompt"] }

IsRef(t) == \E r \in Refs : r.tok = t

RefOf(t) == CHOOSE r \in Refs : r.tok = t

NumTokens == <<"1", "2", "3", "4", "5", "6", "7", "8", "9", "10", "11", "12">>

IsNum(t) == \E n \in DOMAIN NumTokens : NumTokens[n] = t

NumOf(t) == CHOOSE n \in DOMAIN NumTokens : NumTokens[n] = t

StrOfInt(n) == IF n = 0 THEN "0" ELSE NumTokens[n]

----------------------------------------------------------------------------
(* Expression evaluator: ExecutorEngine._interpolate_string and            *)
(* _evaluate_condition, on token sequences.                                *)

\* A blank precedes, respectively follows, the token at position i.
SpaceBefore(s, i) == i > 1 /\ s[i-1] # QO /\ s[i] # QC

SpaceAfter(s, i) == i < Len(s) /\ s[i+1] # QC /\ s[i] # QO

\* Position of the first occurrence of " w " in s (0 when there is none).
FirstSpaced(s, w) ==
    LET I == {i \in 1..Len(s) : s[i] = w /\ SpaceBefore(s, i) /\ SpaceAfter(s, i)}
    IN  IF I = {} THEN 0 ELSE CHOOSE i \in I : \A j \in I : i <= j

\* str(value).strip() if value else "", by the key the value is stored under.
StrValue(key, v) ==
    CASE key \in {"is_error", "skipped"} -> IF v THEN <<"True">> ELSE << >>
      [] key \in {"result", "context"} -> IF DOMAIN v = {} THEN << >> ELSE <<"{dict}">>
      [] key \in {"resources", "entitlements"} -> IF v = << >> THEN << >> ELSE <<"[list]">>
      [] OTHER -> v

\* The replacer of _interpolate_string, applied to one {{...}} token.
replacer(ctx, t) ==
    IF ~IsRef(t)
    THEN <<t>>
    ELSE LET r == RefOf(t)
         IN  IF r.id \in DOMAIN ctx /\ r.key \in DOMAIN ctx[r.id]
             THEN StrValue(r.key, ctx[r.id][r.key])
             ELSE <<t>>

RECURSIVE _interpolate_string(_, _)
_interpolate_string(ctx, text) ==
    IF text = << >> THEN << >>
    ELSE replacer(ctx, Head(text)) \o _interpolate_string(ctx, Tail(text))

\* _interpolate_dict as it would be if it passed the values on as written.
_interpolate_dict_raw(ctx, d) ==
    [i \in DOMAIN d |-> [key |-> d[i].key, value |-> d[i].value]]

\* _interpolate_dict over the inputs of a step: a sequence of [key, value].
_interpolate_dict(ctx, d) ==
    [i \in DOMAIN d |-> [key |-> d[i].key, value |-> _interpolate_string(ctx, d[i].value)]]

\* s.strip().strip('"')
StripQuotes(s) ==
    LET I == {i \in 1..Len(s) : s[i] \notin {QO, QC}}
    IN  IF I = {} THEN << >>
        ELSE SubSeq(s, CHOOSE i \in I : \A j \in I : i <= j,
                       CHOOSE i \in I : \A j \in I : i >= j)

\* right in left
Contains(left, right) ==
    \E i \in 0..(Len(left) - Len(right)) : SubSeq(left, i + 1, i + Len(right)) = right

\* float(s) succeeds
IsFloat(s) == Len(s) = 1 /\ (s[1] = "0" \/ IsNum(s[1]))

Float(s) == IF s[1] = "0" THEN 0 ELSE NumOf(s[1])

ComparisonOps == <<">=", "<=", "!=", "==", ">", "<", "contains">>

Compare(op, left, right) ==
    CASE op = "==" -> left = right
      [] op = "!=" -> left # right
      [] op = "contains" -> Contains(left, right)
      [] OTHER ->
            IF ~(IsFloat(left) /\ IsFloat(right)) THEN FALSE
            ELSE CASE op = ">"  -> Float(left) > Float(right)
                   [] op = ">=" -> Float(left) >= Float(right)
                   [] op = "<"  -> Float(left) < Float(right)
                   [] OTHER     -> Float(left) <= Float(right)

RECURSIVE _evaluate_simple_condition(_)
_evaluate_simple_condition(expr) ==
    IF Len(expr) >= 2 /\ expr[1] = "not" /\ SpaceAfter(expr, 1)
    THEN ~_evaluate_simple_condition(Tail(expr))
    ELSE LET K == {k \in DOMAIN ComparisonOps : FirstSpaced(expr, ComparisonOps[k]) > 0}
         IN  IF K # {}
             THEN LET k == CHOOSE x \in K : \A y \in K : x <= y
                      i == FirstSpaced(expr, ComparisonOps[k])
                  IN  Compare(ComparisonOps[k],
                              StripQuotes(SubSeq(expr, 1, i - 1)),
                              StripQuotes(SubSeq(expr, i + 1, Len(expr))))
             ELSE IF Len(expr) = 1 /\ expr[1] \in {"true", "True", "TRUE"} THEN TRUE
             ELSE IF Len(expr) = 1 /\ expr[1] \in {"false", "False", "FALSE"} THEN FALSE
             ELSE Len(expr) > 0

\* The nested calls of _evaluate_simple_condition the call stack of the
\* interpreter holds (about 990 under CPython's default recursion limit of
\* 1000), scaled down.
MaxNot == 2

\* The depth of the recursion of _evaluate_simple_condition on expr: one
\* call per leading "not ".
RECURSIVE Negations(_)
Negations(expr) ==
    IF Len(expr) >= 2 /\ expr[1] = "not" /\ SpaceAfter(expr, 1)
    THEN 1 + Negations(Tail(expr))
    ELSE 0

\* _evaluate_condition raises RecursionError: a part it evaluates (the second
\* one only when the first does not decide the and / or) is nested too deep.
RaisesRecursionError(ctx, expression) ==
    LET interpolated == _interpolate_string(ctx, expression)
        a == FirstSpaced(interpolated, "and")
        o == FirstSpaced(interpolated, "or")
        first(i)  == SubSeq(interpolated, 1, i - 1)
        second(i) == SubSeq(interpolated, i + 1, Len(interpolated))
    IN  IF a > 0
        THEN \/ Negations(first(a)) > MaxNot
             \/ _evaluate_simple_condition(first(a)) /\ Negations(second(a)) > MaxNot
        ELSE IF o > 0
        THEN \/ Negations(first(o)) > MaxNot
             \/ ~_evaluate_simple_condition(first(o)) /\ Negations(second(o)) > MaxNot
        ELSE Negations(interpolated) > MaxNot

\* _evaluate_condition as it would be if it looked for " or " first.
_evaluate_condition_or_first(ctx, expression) ==
    LET interpolated == _interpolate_string(ctx, expression)
        a == FirstSpaced(interpolated, "and")
        o == FirstSpaced(interpolated, "or")
    IN  IF o > 0
        THEN _evaluate_simple_condition(SubSeq(interpolated, 1, o - 1))
             \/ _evaluate_simple_condition(SubSeq(interpolated, o + 1, Len(interpolated)))
        ELSE IF a > 0
        THEN _evaluate_simple_condition(SubSeq(interpolated, 1, a - 1))
             /\ _evaluate_simple_condition(SubSeq(interpolated, a + 1, Len(interpolated)))
        ELSE _evaluate_simple_condition(interpolated)

_evaluate_condition(ctx, expression) ==
    LET interpolated == _interpolate_string(ctx, expression)
        a == FirstSpaced(interpolated, "and")
        o == FirstSpaced(interpolated, "or")
    IN  IF a > 0
        THEN _evaluate_simple_condition(SubSeq(interpolated, 1, a - 1))
             /\ _evaluate_simple_condition(SubSeq(interpolated, a + 1, Len(interpolated)))
        ELSE IF o > 0
        THEN _evaluate_simple_condition(SubSeq(interpolated, 1, o - 1))
             \/ _evaluate_simple_condition(SubSeq(interpolated, o + 1, Len(interpolated)))
        ELSE _evaluate_simple_condition(interpolated)

----------------------------------------------------------------------------
(* Event log: paws/state_manager.py *)

Event(event_type, step_id, payload) ==
    [event_type |-> event_type, step_id |-> step_id, payload |-> payload]

NoPayload == [x \in {} |-> << >>]

\* json.dump of asdict(e): None becomes null, a str a JSON string.
ToJson(e) ==
    [event_type |-> e.event_type,
     step_id    |-> IF IsNone(e.step_id) THEN <<"null">> ELSE <<"string", Get(e.step_id)>>,
     payload    |-> e.payload]

\* Event(**e) of a json.load-ed object.
FromJson(j) ==
    [event_type |-> j.event_type,
     step_id    |-> IF j.step_id = <<"null">> THEN None ELSE Some(j.step_id[2]),
     payload    |-> j.payload]

\* _persist as it would be if it wrote the newest event only.
_persist_newest_only(evs) ==
    [state |-> "ok", data |-> << ToJson(Last(evs)) >>]

\* The file once EventLog._persist has written and closed it.
_persist(evs) == [state |-> "ok", data |-> [i \in DOMAIN evs |-> ToJson(evs[i])]]

\* The file between open(log_path, 'w') and the end of json.dump.
Truncated == [state |-> "partial", data |-> << >>]

NoFile == [state |-> "absent", data |-> << >>]

\* EventLog.load as it would be if it returned the events newest first.
load_newest_first(file) ==
    [i \in DOMAIN file.data |-> FromJson(file.data[Len(file.data) + 1 - i])]

\* EventLog.load of a readable file.
load(file) == [i \in DOMAIN file.data |-> FromJson(file.data[i])]

\* initialize_state as it would be if it kept the events already in the file.
initialize_state_keeping(user_inputs) ==
    (IF disk.state = "ok" THEN load(disk) ELSE << >>)
    \o << Event("STATE_ZERO", None, [user_inputs |-> user_inputs]) >>

\* The events of the log initialize_state creates, before its first _persist.
initialize_state(user_inputs) ==
    << Event("STATE_ZERO", None, [user_inputs |-> user_inputs]) >>

\* get_last_successful_step scanning from the front instead of the back.
RECURSIVE get_first_successful_step(_)
get_first_successful_step(evs) ==
    IF evs = << >> THEN None
    ELSE IF Head(evs).event_type = "STEP_SUCCESS" THEN Head(evs).step_id
    ELSE get_first_successful_step(Tail(evs))

RECURSIVE get_last_successful_step(_)
get_last_successful_step(evs) ==
    IF evs = << >> THEN None
    ELSE LET e == Last(evs)
         IN  IF e.event_type = "STEP_SUCCESS" /\ ~IsNone(e.step_id) /\ Get(e.step_id) # ""
             THEN e.step_id
             ELSE get_last_successful_step(SubSeq(evs, 1, Len(evs) - 1))

RECURSIVE LoopCount(_, _, _)
LoopCount(evs, loop_id, count) ==
    IF evs = << >> THEN count
    ELSE LET e == Head(evs)
         IN  LoopCount(Tail(evs), loop_id,
                 IF e.event_type = "LOOP_ITERATION" /\ e.step_id = Some(loop_id)
                 THEN (IF "counter" \in DOMAIN e.payload THEN e.payload.counter ELSE count + 1)
                 ELSE count)

get_loop_counter(evs, loop_id) == LoopCount(evs, loop_id, 0)

----------------------------------------------------------------------------
(* Tool dispatcher: paws/mcp_client.py, and paws/validator.py *)

RECURSIVE Join(_)
Join(parts) ==
    IF parts = << >> THEN << >>
    ELSE IF Len(parts) = 1 THEN parts[1]
    ELSE parts[1] \o <<"\n">> \o Join(Tail(parts))

parse_observation(raw) ==
    [stdout    |-> IF raw.isError THEN << >> ELSE Join(raw.content),
     stderr    |-> IF raw.isError THEN Join(raw.content) ELSE << >>,
     exit_code |-> IF raw.isError THEN 1 ELSE 0,
     is_error  |-> raw.isError,
     result    |-> raw]

\* send_payload as it would be if an exception of call_tool were passed on as
\* an empty successful result.
send_payload_swallowing(outcome) ==
    IF outcome.kind = "return"
    THEN parse_observation(outcome.raw)
    ELSE [stdout |-> << >>, stderr |-> << >>, exit_code |-> 0,
          is_error |-> FALSE, result |-> [error |-> outcome.msg]]

\* What call_tool does: return a response mapping or raise.
send_payload(outcome) ==
    IF outcome.kind = "return"
    THEN parse_observation(outcome.raw)
    ELSE [stdout |-> << >>, stderr |-> outcome.msg, exit_code |-> 1,
          is_error |-> TRUE, result |-> [error |-> outcome.msg]]

to_context(r) ==
    [stdout    |-> r.stdout,
     stderr    |-> r.stderr,
     exit_code |-> <<StrOfInt(r.exit_code)>>,
     result    |-> r.result,
     is_error  |-> r.is_error]

FileIndicatorKeys == {"output_file", "file", "path", "result_file"}

_is_file_output(output_key) == output_key \in FileIndicatorKeys

PathTokens == {"/tmp/out", "/tmp/x", "./workspace/a"}

\* The stdout heuristic of _extract_file_path: the last line, when stdout has a "/".
_extract_file_path(r) ==
    IF \E i \in DOMAIN r.stdout : r.stdout[i] \in PathTokens
    THEN LET N == {i \in DOMAIN r.stdout : r.stdout[i] = "\n"}
             from == IF N = {} THEN 1 ELSE (CHOOSE i \in N : \A j \in N : i >= j) + 1
         IN  Some(SubSeq(r.stdout, from, Len(r.stdout)))
    ELSE None

\* validate_step's error list; fileOk: the extracted file exists and is not empty.
validate_step(r, outputs, fileOk) ==
    (IF r.is_error THEN <<"returned error">> ELSE << >>)
    \o (IF \E k \in outputs : _is_file_output(k) /\ ~IsNone(_extract_file_path(r)) /\ ~fileOk
        THEN <<"output file missing or empty">> ELSE << >>)

----------------------------------------------------------------------------
(* Entitlements checker: paws/security.py (its source is not in the tree;  *)
(* modelled from the specification, section 4.4, and tests/test_security). *)

Lower(t) ==
    CASE t = "Bash" -> "bash"
      [] t = "Execute" -> "execute"
      [] OTHER -> t

_matches_capability(capability, extension) ==
    \/ capability = <<"*">>
    \/ \E i \in DOMAIN capability : Lower(capability[i]) = Lower(extension)

\* Descendants of a scope's path fragment.
PathUnder == { <<"./workspace/a", "./workspace/">> }

\* A scope that mentions Execute matches with a path too (test_execute_scope).
_matches_scope(scope, path) ==
    \/ scope = <<"*">>
    \/ \E i \in DOMAIN scope : Lower(scope[i]) = "execute"
    \/ \E i \in DOMAIN scope : <<path, scope[i]>> \in PathUnder

verify_entitlements(entitlements, extension, path) ==
    \/ entitlements = << >>
    \/ \E i \in DOMAIN entitlements :
          /\ _matches_capability(entitlements[i].capability, extension)
          /\ _matches_scope(entitlements[i].scope, path)

RECURSIVE extract_paths_from_inputs(_)
extract_paths_from_inputs(inputs) ==
    IF inputs = << >> THEN << >>
    ELSE LET x == Head(inputs)
         IN  (IF x.key \notin {"command", "script"} /\ Len(x.value) = 1
                 /\ x.value[1] \in PathTokens
              THEN <<x.value[1]>> ELSE << >>)
             \o extract_paths_from_inputs(Tail(inputs))

----------------------------------------------------------------------------
(* Registry (paws/core/registry.py) and validation (paws/aol_parser.py) *)

Registered == {"Bash"}

get_extension(name) ==
    IF name \in Registered
    THEN Some([name |-> name, source |-> "paws.extensions.bash"])
    ELSE None

StepIds(steps) == {steps[i].id : i \in DOMAIN steps}

_validate_step_references(steps, step_ids) ==
    { <<i, "loop_end references unknown loop_id">> : i \in
        {j \in DOMAIN steps : ~IsNone(steps[j].loop_end)
                              /\ Get(steps[j].loop_end).loop_id \notin step_ids} }
    \cup
    { <<i, "switch references unknown step">> : i \in
        {j \in DOMAIN steps : ~IsNone(steps[j].switch)
            /\ \/ \E c \in DOMAIN Get(steps[j].switch).cases :
                    \E k \in DOMAIN Get(steps[j].switch).cases[c].steps :
                        Get(steps[j].switch).cases[c].steps[k] \notin step_ids
               \/ \E k \in DOMAIN Get(steps[j].switch).default :
                        Get(steps[j].switch).default[k] \notin step_ids} }
    \cup
    { <<i, "fallback_step references unknown step">> : i \in
        {j \in DOMAIN steps : ~IsNone(steps[j].on_failure)
            /\ ~IsNone(Get(steps[j].on_failure).fallback_step)
            /\ Get(Get(steps[j].on_failure).fallback_step) \notin step_ids} }

\* The scan of _validate_loop_structure from step idx on.
RECURSIVE LoopScan(_, _, _, _, _)
LoopScan(steps, idx, loop_stack, loop_begins, errors) ==
    IF idx > Len(steps)
    THEN errors \cup { <<loop_stack[k][2], "never closed">> : k \in DOMAIN loop_stack }
    ELSE LET step   == steps[idx]
             stack1 == IF ~IsNone(step.loop_begin)
                       THEN Append(loop_stack, <<step.id, idx>>) ELSE loop_stack
             begin1 == IF ~IsNone(step.loop_begin)
                       THEN Put(loop_begins, step.id, idx) ELSE loop_begins
         IN  IF IsNone(step.loop_end)
             THEN LoopScan(steps, idx + 1, stack1, begin1, errors)
             ELSE LET loop_id == Get(step.loop_end).loop_id
                  IN  IF loop_id \notin DOMAIN begin1
                      THEN LoopScan(steps, idx + 1, stack1, begin1,
                                    errors \cup {<<idx, "no loop_begin found">>})
                      ELSE IF begin1[loop_id] >= idx
                      THEN LoopScan(steps, idx + 1, stack1, begin1,
                                    errors \cup {<<idx, "must come after loop_begin">>})
                      ELSE IF stack1 # << >> /\ loop_id # Last(stack1)[1]
                      THEN LoopScan(steps, idx + 1, stack1, begin1,
                                    errors \cup {<<idx, "invalid nesting">>})
                      ELSE IF stack1 # << >>
                      THEN LoopScan(steps, idx + 1, SubSeq(stack1, 1, Len(stack1) - 1),
                                    begin1, errors)
                      ELSE LoopScan(steps, idx + 1, stack1, begin1, errors)

\* _validate_loop_structure as it would be if a matching loop_end did not
\* close its loop: every loop_begin is then reported as never closed.
_validate_loop_structure_never_popping(steps) ==
    LoopScan(steps, 1, << >>, << >>, {})
    \cup { <<idx, "never closed">> : idx \in
             {j \in DOMAIN steps : ~IsNone(steps[j].loop_begin)} }

_validate_loop_structure(steps) == LoopScan(steps, 1, << >>, << >>, {})

\* validate_dependencies as it would be without the registry lookups.
validate_dependencies_without_registry(workflow) ==
    _validate_step_references(workflow.steps, StepIds(workflow.steps))
    \cup _validate_loop_structure(workflow.steps)

validate_dependencies(workflow) ==
    { <<0, "extension not found in registry">> : i \in
        {j \in DOMAIN workflow.steps :
            ~IsNone(workflow.steps[j].extension)
            /\ IsNone(get_extension(Get(workflow.steps[j].extension)))} }
    \cup _validate_step_references(workflow.steps, StepIds(workflow.steps))
    \cup _validate_loop_structure(workflow.steps)

----------------------------------------------------------------------------
(* Workflow documents (paws/core/models.py) the model runs *)

AOLStep(id) ==
    [id |-> id, extension |-> None, inputs |-> << >>, outputs |-> {},
     condition |-> None, on_failure |-> None,
     loop_begin |-> None, loop_end |-> None, switch |-> None]

BashStep(id, command) ==
    [AOLStep(id) EXCEPT !.extension = Some("Bash"),
                        !.inputs = << [key |-> "command", value |-> command] >>]

AOLOnFailure(strategy, max_retries, fallback_step) ==
    Some([strategy |-> strategy, max_retries |-> max_retries,
          fallback_step |-> fallback_step])

Quoted(t) == <<QO, t, QC>>

Workflow(entitlements, steps) ==
    [doc_ok      |-> TRUE,
     provider    |-> [name |-> <<"Localhost">>, context |-> NoPayload,
                      entitlements |-> entitlements],
     user_inputs |-> [prompt |-> <<"go">>, resources |-> << >>],
     steps       |-> steps]

S1 == BashStep("s1", <<"echo", "hi">>)

S2 == [BashStep("s2", <<"echo", "{{s1.stdout}}">>) EXCEPT
          !.condition = Some(Quoted("{{s1.stdout}}") \o <<"==">> \o Quoted("yes"))]

S3 == BashStep("s3", <<"echo", "{{user_inputs.prompt}}">>)

WLinear == Workflow(<< >>, <<S1, S2, S3>>)

\* An entitlements list that names no capability of the step's extension,
\* and a step whose only input is a command.
WDeny ==
    Workflow(<< [scope |-> <<"Read", "./data/">>,
                 capability |-> <<"File", "Access">>] >>,
             << BashStep("d", <<"echo", "hi">>) >>)

\* A step whose id is the name of a seeded entry.
WReserved == Workflow(<< >>, << BashStep("user_inputs", <<"echo", "hi">>) >>)

\* A step that passes the output of the step before it on, unconditionally.
WChain == Workflow(<< >>, <<S1, BashStep("s4", <<"echo", "{{s1.stdout}}">>)>>)

WLoop ==
    Workflow(<< >>,
       << [AOLStep("L") EXCEPT !.loop_begin = Some([max_iterations |-> 2])],
          BashStep("w", <<"echo", "{{L.counter}}">>),
          [AOLStep("E") EXCEPT !.loop_end =
              Some([loop_id |-> "L",
                    exit_when |-> Quoted("{{L.counter}}") \o <<">=">> \o Quoted("2")])] >>)

WLoopMax ==
    Workflow(<< >>,
       << [AOLStep("L") EXCEPT !.loop_begin = Some([max_iterations |-> 1])],
          [BashStep("w", <<"echo", "{{L.counter}}">>) EXCEPT
              !.on_failure = AOLOnFailure("skip", None, None)],
          [AOLStep("E") EXCEPT !.loop_end =
              Some([loop_id |-> "L", exit_when |-> <<"false">>])] >>)

\* max_iterations 0: no limit; the body is a step without extension.
WLoop0 ==
    Workflow(<< >>,
       << [AOLStep("L") EXCEPT !.loop_begin = Some([max_iterations |-> 0])],
          AOLStep("n"),
          [AOLStep("E") EXCEPT !.loop_end =
              Some([loop_id |-> "L",
                    exit_when |-> Quoted("{{L.counter}}") \o <<">=">> \o Quoted("3")])] >>)

WRetry ==
    Workflow(<< >>,
       << [BashStep("r", <<"make">>) EXCEPT
              !.on_failure = AOLOnFailure("retry", Some(1), None)],
          S1 >>)

WRetry0 ==
    Workflow(<< >>,
       << [BashStep("r", <<"make">>) EXCEPT
              !.on_failure = AOLOnFailure("retry", Some(0), None)] >>)

WFallbackNone ==
    Workflow(<< >>,
       << [BashStep("b", <<"make">>) EXCEPT
              !.on_failure = AOLOnFailure("fallback", None, None)] >>)

WFallback ==
    Workflow(<< >>,
       << [BashStep("b", <<"make">>) EXCEPT
              !.on_failure = AOLOnFailure("fallback", None, Some("f"))],
          [BashStep("f", <<"make", "clean">>) EXCEPT
              !.on_failure = AOLOnFailure("skip", None, None)] >>)

WSkip ==
    Workflow(<< >>,
       << [BashStep("c", <<"render">>) EXCEPT
              !.outputs = {"output_file"},
              !.on_failure = AOLOnFailure("skip", None, None)],
          [BashStep("s3", <<"echo", "{{c.stdout}}">>) EXCEPT
              !.condition = Some(Quoted("{{c.stdout}}") \o <<"==">> \o Quoted("yes")),
              !.on_failure = AOLOnFailure("abort", None, None)] >>)

WHeal ==
    Workflow(<< >>,
       << [BashStep("d", <<"make">>) EXCEPT
              !.on_failure = AOLOnFailure("self_heal", None, None)] >>)

WEnt ==
    Workflow(<< [scope |-> <<"Read/Write", "./workspace/">>,
                 capability |-> <<"Execute", "Bash", "Commands">>] >>,
       << [AOLStep("p1") EXCEPT
              !.extension = Some("Bash"),
              !.inputs = << [key |-> "input_file", value |-> <<"./workspace/a">>] >>],
          [AOLStep("p2") EXCEPT
              !.extension = Some("Bash"),
              !.inputs = << [key |-> "input_file", value |-> <<"./workspace/a">>],
                            [key |-> "output_dir", value |-> <<"/tmp/x">>] >>,
              !.on_failure = AOLOnFailure("skip", None, None)],
          [AOLStep("p3") EXCEPT
              !.extension = Some("Bash"),
              !.inputs = << [key |-> "target", value |-> <<"/tmp/x">>] >>] >>)

WMisc ==
    Workflow(<< >>,
       << AOLStep("n"),
          [AOLStep("sw") EXCEPT !.switch =
              Some([value |-> <<"{{s1.stdout}}">>,
                    cases |-> << [match |-> <<"yes">>, steps |-> <<"s1">>] >>,
                    default |-> <<"n">>])],
          S1 >>)

\* A switch on the output of s1: case yes names step a, the default step b.
WSwitch ==
    Workflow(<< >>,
       << S1,
          [AOLStep("sw") EXCEPT !.switch =
              Some([value |-> <<"{{s1.stdout}}">>,
                    cases |-> << [match |-> <<"yes">>, steps |-> <<"a">>] >>,
                    default |-> <<"b">>])],
          AOLStep("a"),
          AOLStep("b") >>)

WBadExt == Workflow(<< >>, << [AOLStep("x") EXCEPT !.extension = Some("Python")] >>)

WBadLoop ==
    Workflow(<< >>,
       << S1,
          [AOLStep("E") EXCEPT !.loop_end =
              Some([loop_id |-> "L", exit_when |-> <<"true">>])] >>)

WBadDoc == [Workflow(<< >>, <<S1>>) EXCEPT !.doc_ok = FALSE]

\* A loop with a second loop_end behind the one that closes it.
WReclosed ==
    Workflow(<< >>,
       << [AOLStep("L") EXCEPT !.loop_begin = Some([max_iterations |-> 1])],
          [AOLStep("E") EXCEPT !.loop_end =
              Some([loop_id |-> "L", exit_when |-> <<"false">>])],
          [AOLStep("F") EXCEPT !.loop_end =
              Some([loop_id |-> "L", exit_when |-> <<"false">>])] >>)

\* Two steps with the same id.
WDup == Workflow(<< >>, << AOLStep("n"), AOLStep("n") >>)

Workflows ==
    {WLinear, WLoop, WLoopMax, WLoop0, WRetry, WRetry0, WFallback, WFallbackNone,
     WSkip, WHeal, WEnt, WMisc, WSwitch, WBadExt, WBadLoop, WBadDoc, WDup,
     WReclosed, WChain, WDeny, WReserved}

\* What the environment can answer to one tool dispatch.
ToolOutcomes ==
    { [kind |-> "return", raw |-> [content |-> << <<"yes">> >>, isError |-> FALSE]],
      [kind |-> "return", raw |-> [content |-> << <<"/tmp/out">> >>, isError |-> FALSE]],
      [kind |-> "return", raw |-> [content |-> << <<"boom">> >>, isError |-> TRUE]],
      [kind |-> "raise", msg |-> <<"boom">>] }

----------------------------------------------------------------------------
(* The interpreter: ExecutorEngine.run_workflow and its helpers *)

steps == wf.steps

Empty == [x \in {} |-> << >>]

\* max_retries when on_failure gives none (or 0): executor.py line 329.
DefaultMaxRetries == 3

\* append_event + EventLog.append up to open(log_path, 'w'): the event joins
\* the in-memory list and the file is truncated; Persist completes the write.
AppendThen(event_type, step_id, payload, next) ==
    /\ Len(events) < MaxLog
    /\ events' = Append(events, Event(event_type, step_id, payload))
    /\ disk' = Truncated
    /\ pc' = "persist"
    /\ after' = next

\* json.dump and close in EventLog._persist.
Persist ==
    /\ pc = "persist"
    /\ disk' = _persist(events)
    /\ pc' = after
    /\ acked' = events
    /\ UNCHANGED <<wf, after, resume, events, context, loop_counters, step_index,
                   mode, cur, attempt, result, runs, log0, ncalls, sent>>

\* A new process: ExecutorEngine.__init__, then run_workflow up to the point
\* where the event log object exists (lines 64-93).
StartRun(r) ==
    /\ pc = "idle"
    /\ runs < MaxRuns
    /\ runs' = runs + 1
    /\ resume' = r
    /\ log0' = disk
    /\ context' = Empty
    /\ loop_counters' = Empty
    /\ step_index' = 0
    /\ mode' = "main"
    /\ cur' = 0
    /\ attempt' = 0
    /\ ncalls' = 0
    /\ sent' = << >>
    /\ UNCHANGED wf
    /\ IF ~wf.doc_ok \/ validate_dependencies(wf) # {}
       THEN /\ result' = "false"
            /\ events' = << >>
            /\ acked' = << >>
            /\ UNCHANGED <<disk, pc, after>>
       ELSE IF r /\ disk.state # "absent"
       THEN IF disk.state = "partial"
            THEN /\ result' = "raised"
                 /\ events' = << >>
                 /\ acked' = << >>
                 /\ UNCHANGED <<disk, pc, after>>
            ELSE /\ result' = "none"
                 /\ events' = load(disk)
                 /\ acked' = load(disk)
                 /\ pc' = "seed"
                 /\ UNCHANGED <<disk, after>>
       ELSE /\ result' = "none"
            /\ events' = initialize_state(wf.user_inputs)
            /\ acked' = << >>
            /\ disk' = Truncated
            /\ pc' = "persist"
            /\ after' = "seed"

\* StartIndex as it would be if the run started at the succeeded step itself.
StartIndex_at_success(last_success) ==
    IF ~IsNone(last_success) /\ Get(last_success) # ""
       /\ \E idx \in DOMAIN steps : steps[idx].id = Get(last_success)
    THEN (CHOOSE idx \in DOMAIN steps :
             /\ steps[idx].id = Get(last_success)
             /\ \A j \in DOMAIN steps : steps[j].id = Get(last_success) => idx <= j)
    ELSE 1

\* The index the execution loop starts at (lines 99-107), 1-based.
StartIndex(last_success) ==
    IF ~IsNone(last_success) /\ Get(last_success) # ""
       /\ \E idx \in DOMAIN steps : steps[idx].id = Get(last_success)
    THEN (CHOOSE idx \in DOMAIN steps :
             /\ steps[idx].id = Get(last_success)
             /\ \A j \in DOMAIN steps : steps[j].id = Get(last_success) => idx <= j) + 1
    ELSE 1

\* The seeding as it would be if it left the provider entry out.
Seed_user_inputs_only ==
    /\ pc = "seed"
    /\ context' = Put(context, "user_inputs", wf.user_inputs)
    /\ step_index' = StartIndex(IF resume THEN get_last_successful_step(events) ELSE None)
    /\ pc' = "loop"
    /\ UNCHANGED <<wf, disk, after, resume, events, loop_counters, mode, cur, attempt,
                   result, runs, log0, ncalls, sent, acked>>

\* Lines 95-114: seed the context and determine the starting point.
Seed ==
    /\ pc = "seed"
    /\ context' = Put(Put(context, "user_inputs", wf.user_inputs), "provider", wf.provider)
    /\ step_index' = StartIndex(IF resume THEN get_last_successful_step(events) ELSE None)
    /\ pc' = "loop"
    /\ UNCHANGED <<wf, disk, after, resume, events, loop_counters, mode, cur, attempt,
                   result, runs, log0, ncalls, sent, acked>>

\* _handle_loop_begin's target as it would be if the limit were tested with >=.
LoopBeginTarget_exit_at_limit(step, current_index, counter) ==
    LET max_iter == Get(step.loop_begin).max_iterations
        Ends == {idx \in (current_index + 1)..Len(steps) :
                    /\ ~IsNone(steps[idx].loop_end)
                    /\ Get(steps[idx].loop_end).loop_id = step.id}
    IN  IF max_iter > 0 /\ counter >= max_iter
        THEN IF Ends # {} THEN (CHOOSE i \in Ends : \A j \in Ends : i <= j) + 1
             ELSE Len(steps) + 1
        ELSE current_index + 1

\* Where _handle_loop_begin sends control (lines 257-268), 1-based.
LoopBeginTarget(step, current_index, counter) ==
    LET max_iter == Get(step.loop_begin).max_iterations
        Ends == {idx \in (current_index + 1)..Len(steps) :
                    /\ ~IsNone(steps[idx].loop_end)
                    /\ Get(steps[idx].loop_end).loop_id = step.id}
    IN  IF max_iter > 0 /\ counter > max_iter
        THEN IF Ends # {} THEN (CHOOSE i \in Ends : \A j \in Ends : i <= j) + 1
             ELSE Len(steps) + 1
        ELSE current_index + 1

\* The counter as it would be if each arrival added two.
NextCounter_by_two(loop_id) ==
    (IF loop_id \in DOMAIN loop_counters THEN loop_counters[loop_id] ELSE 0) + 2

\* Lines 246-249: the counter starts at 0 and is incremented on each arrival.
NextCounter(loop_id) ==
    (IF loop_id \in DOMAIN loop_counters THEN loop_counters[loop_id] ELSE 0) + 1

\* _handle_loop_begin
HandleLoopBegin ==
    /\ pc = "loop"
    /\ step_index <= Len(steps)
    /\ ~IsNone(steps[step_index].loop_begin)
    /\ LET step    == steps[step_index]
           counter == NextCounter(step.id)
       IN  /\ loop_counters' = Put(loop_counters, step.id, counter)
           /\ context' = Put(context, step.id, [counter |-> <<StrOfInt(counter)>>])
           /\ step_index' = LoopBeginTarget(step, step_index, counter)
           /\ AppendThen("LOOP_ITERATION", Some(step.id), [counter |-> counter], "loop")
    /\ UNCHANGED <<wf, resume, mode, cur, attempt, result, runs, log0, ncalls, sent, acked>>

\* step_id_to_index[id]: the dict comprehension keeps the last index of an id.
StepIdToIndex(id) ==
    CHOOSE idx \in DOMAIN steps :
        /\ steps[idx].id = id
        /\ \A j \in DOMAIN steps : steps[j].id = id => j <= idx

\* An exception leaves run_workflow: __main__ prints it and the process
\* exits (lines 496-501); the file stays as the last append left it.
Raise ==
    /\ pc' = "idle"
    /\ result' = "raised"
    /\ events' = << >>
    /\ context' = Empty
    /\ loop_counters' = Empty
    /\ step_index' = 0
    /\ mode' = "main"
    /\ cur' = 0
    /\ attempt' = 0
    /\ after' = "seed"
    /\ UNCHANGED disk

\* _handle_loop_end
HandleLoopEnd ==
    /\ pc = "loop"
    /\ step_index <= Len(steps)
    /\ IsNone(steps[step_index].loop_begin)
    /\ ~IsNone(steps[step_index].loop_end)
    /\ LET le == Get(steps[step_index].loop_end)
       IN  IF RaisesRecursionError(context, le.exit_when)
           THEN Raise
           ELSE /\ step_index' = IF _evaluate_condition(context, le.exit_when)
                                 THEN step_index + 1
                                 ELSE StepIdToIndex(le.loop_id)
                /\ UNCHANGED <<disk, pc, after, events, context, loop_counters,
                               mode, cur, attempt, result>>
    /\ UNCHANGED <<wf, resume, runs, log0, ncalls, sent, acked>>

\* _handle_switch, lines 288-300: the steps of the first case whose match is
\* the interpolated value, the default list when no case matches.
matched_steps(ctx, step) ==
    LET switch == Get(step.switch)
        value  == _interpolate_string(ctx, switch.value)
        M      == {c \in DOMAIN switch.cases : value = switch.cases[c].match}
    IN  IF M # {}
        THEN switch.cases[CHOOSE c \in M : \A d \in M : c <= d].steps
        ELSE switch.default

\* _handle_switch as it would be if it jumped to the first matched step.
HandleSwitch_jumping ==
    /\ pc = "loop"
    /\ step_index <= Len(steps)
    /\ IsNone(steps[step_index].loop_begin)
    /\ IsNone(steps[step_index].loop_end)
    /\ ~IsNone(steps[step_index].switch)
    /\ step_index' = IF matched_steps(context, steps[step_index]) # << >>
                     THEN StepIdToIndex(matched_steps(context, steps[step_index])[1])
                     ELSE step_index + 1
    /\ UNCHANGED <<wf, disk, pc, after, resume, events, context, loop_counters,
                   mode, cur, attempt, result, runs, log0, ncalls, sent, acked>>

\* _handle_switch: the matched list is only printed.
HandleSwitch ==
    /\ pc = "loop"
    /\ step_index <= Len(steps)
    /\ IsNone(steps[step_index].loop_begin)
    /\ IsNone(steps[step_index].loop_end)
    /\ ~IsNone(steps[step_index].switch)
    /\ step_index' = step_index + 1
    /\ UNCHANGED <<wf, disk, pc, after, resume, events, context, loop_counters,
                   mode, cur, attempt, result, runs, log0, ncalls, sent, acked>>

IsRegular(step) ==
    IsNone(step.loop_begin) /\ IsNone(step.loop_end) /\ IsNone(step.switch)

\* Line 135: the loop calls _execute_step on a regular step.
Dispatch ==
    /\ pc = "loop"
    /\ step_index <= Len(steps)
    /\ IsRegular(steps[step_index])
    /\ pc' = "exec"
    /\ cur' = step_index
    /\ mode' = "main"
    /\ UNCHANGED <<wf, disk, after, resume, events, context, loop_counters, step_index,
                   attempt, result, runs, log0, ncalls, sent, acked>>

\* Lines 145-147: the loop is over.
Complete ==
    /\ pc = "loop"
    /\ step_index > Len(steps)
    /\ AppendThen("WORKFLOW_COMPLETE", None, NoPayload, "return_true")
    /\ UNCHANGED <<wf, resume, context, loop_counters, step_index, mode, cur, attempt,
                   result, runs, log0, ncalls, sent, acked>>

\* _execute_step as it would be if it went on to the tool without STEP_START.
ExecStart_without_start ==
    /\ pc = "exec"
    /\ LET step == steps[cur]
       IN  IF ~IsNone(step.condition) /\ ~_evaluate_condition(context, Get(step.condition))
           THEN AppendThen("STEP_SKIPPED", Some(step.id),
                           [reason |-> <<"Condition", "false">>], "skip_ctx")
           ELSE pc' = "act" /\ UNCHANGED <<disk, after, events>>
    /\ UNCHANGED <<wf, resume, context, loop_counters, step_index, mode, cur, attempt,
                   result, runs, log0, ncalls, sent, acked>>

\* _execute_step, lines 160-170: the condition, then STEP_SKIPPED or STEP_START.
ExecStart ==
    /\ pc = "exec"
    /\ LET step == steps[cur]
       IN  IF ~IsNone(step.condition) /\ RaisesRecursionError(context, Get(step.condition))
           THEN Raise
           ELSE /\ IF ~IsNone(step.condition)
                      /\ ~_evaluate_condition(context, Get(step.condition))
                   THEN AppendThen("STEP_SKIPPED", Some(step.id),
                                   [reason |-> <<"Condition", "false">>], "skip_ctx")
                   ELSE AppendThen("STEP_START", Some(step.id), NoPayload, "act")
                /\ UNCHANGED <<context, loop_counters, step_index, mode, cur, attempt,
                               result>>
    /\ UNCHANGED <<wf, resume, runs, log0, ncalls, sent, acked>>

\* The skip as it would be if it wrote nothing to the Context Store.
SkipContext_without_entry ==
    /\ pc = "skip_ctx"
    /\ pc' = "ret_true"
    /\ UNCHANGED <<wf, disk, after, resume, events, context, loop_counters, step_index,
                   mode, cur, attempt, result, runs, log0, ncalls, sent, acked>>

\* _execute_step, lines 167-168.
SkipContext ==
    /\ pc = "skip_ctx"
    /\ context' = Put(context, steps[cur].id, [skipped |-> TRUE])
    /\ pc' = "ret_true"
    /\ UNCHANGED <<wf, disk, after, resume, events, loop_counters, step_index, mode,
                   cur, attempt, result, runs, log0, ncalls, sent, acked>>

\* The entitlement loop as it would be if it looked at the first path only.
DeniedPaths_first_only(step) ==
    LET paths == extract_paths_from_inputs(step.inputs)
    IN  {i \in DOMAIN paths : i = 1 /\
            ~verify_entitlements(wf.provider.entitlements, Get(step.extension), paths[i])}

\* The paths of the step's inputs the entitlements checker denies (lines 174-186).
DeniedPaths(step) ==
    LET paths == extract_paths_from_inputs(step.inputs)
    IN  {i \in DOMAIN paths :
            ~verify_entitlements(wf.provider.entitlements, Get(step.extension), paths[i])}

\* _execute_step, lines 172-239: entitlements, dispatch, validation, outcome event.
\* Act as it would be if a failed import of the extension module were not
\* logged.
Act_silent_import_error(outcome, importOk, fileOk) ==
    /\ pc = "act"
    /\ LET step == steps[cur]
       IN  IF ~IsNone(step.extension) /\ DeniedPaths(step) # {}
           THEN /\ AppendThen("STEP_FAILURE", Some(step.id),
                       [error |-> <<"Entitlement", "check", "failed">>], "ret_false")
                /\ UNCHANGED <<context, ncalls, sent>>
           ELSE IF IsNone(step.extension)
           THEN /\ pc' = "ret_true"
                /\ UNCHANGED <<disk, after, events, context, ncalls, sent>>
           ELSE IF IsNone(get_extension(Get(step.extension)))
           THEN /\ AppendThen("STEP_FAILURE", Some(step.id),
                       [error |-> <<"Extension", "not", "found">>], "ret_false")
                /\ UNCHANGED <<context, ncalls, sent>>
           ELSE IF ~importOk
           THEN /\ pc' = "ret_false"
                /\ UNCHANGED <<disk, after, events, context, ncalls, sent>>
           ELSE LET r == send_payload(outcome)
                    validation_errors == validate_step(r, step.outputs, fileOk)
                IN  /\ ncalls' = ncalls + 1
                    /\ sent' = _interpolate_dict(context, step.inputs)
                    /\ context' = Put(context, step.id, to_context(r))
                    /\ IF r.is_error \/ validation_errors # << >>
                       THEN AppendThen("STEP_FAILURE", Some(step.id),
                                [stdout |-> r.stdout, stderr |-> r.stderr,
                                 exit_code |-> r.exit_code,
                                 validation_errors |-> validation_errors], "ret_false")
                       ELSE AppendThen("STEP_SUCCESS", Some(step.id),
                                [stdout |-> r.stdout, exit_code |-> r.exit_code],
                                "ret_true")
    /\ UNCHANGED <<wf, resume, loop_counters, step_index, mode, cur, attempt, result,
                   runs, log0, acked>>

\* importOk: importlib finds the extension module; fileOk: see validate_step.
Act(outcome, importOk, fileOk) ==
    /\ pc = "act"
    /\ LET step == steps[cur]
       IN  IF ~IsNone(step.extension) /\ DeniedPaths(step) # {}
           THEN /\ AppendThen("STEP_FAILURE", Some(step.id),
                       [error |-> <<"Entitlement", "check", "failed">>], "ret_false")
                /\ UNCHANGED <<context, ncalls, sent>>
           ELSE IF IsNone(step.extension)
           THEN /\ pc' = "ret_true"
                /\ UNCHANGED <<disk, after, events, context, ncalls, sent>>
           ELSE IF IsNone(get_extension(Get(step.extension)))
           THEN /\ AppendThen("STEP_FAILURE", Some(step.id),
                       [error |-> <<"Extension", "not", "found">>], "ret_false")
                /\ UNCHANGED <<context, ncalls, sent>>
           ELSE IF ~importOk
           THEN /\ AppendThen("STEP_FAILURE", Some(step.id),
                       [error |-> <<"Failed", "to", "import", "extension">>], "ret_false")
                /\ UNCHANGED <<context, ncalls, sent>>
           ELSE LET r == send_payload(outcome)
                    validation_errors == validate_step(r, step.outputs, fileOk)
                IN  /\ ncalls' = ncalls + 1
                    /\ sent' = _interpolate_dict(context, step.inputs)
                    /\ context' = Put(context, step.id, to_context(r))
                    /\ IF r.is_error \/ validation_errors # << >>
                       THEN AppendThen("STEP_FAILURE", Some(step.id),
                                [stdout |-> r.stdout, stderr |-> r.stderr,
                                 exit_code |-> r.exit_code,
                                 validation_errors |-> validation_errors], "ret_false")
                       ELSE AppendThen("STEP_SUCCESS", Some(step.id),
                                [stdout |-> r.stdout, exit_code |-> r.exit_code],
                                "ret_true")
    /\ UNCHANGED <<wf, resume, loop_counters, step_index, mode, cur, attempt, result,
                   runs, log0, acked>>

\* _execute_step returned True: to the loop (line 143), from _handle_failure
\* included (retry line 333, fallback line 344).
StepSucceeded ==
    /\ pc = "ret_true"
    /\ step_index' = step_index + 1
    /\ pc' = "loop"
    /\ mode' = "main"
    /\ UNCHANGED <<wf, disk, after, resume, events, context, loop_counters, cur,
                   attempt, result, runs, log0, ncalls, sent, acked>>

\* The abort as it would be if the event named no step.
Abort_without_step ==
    /\ AppendThen("WORKFLOW_ABORTED", None,
                  [reason |-> <<"Step", "failed", "with", "abort", "strategy">>],
                  "return_false")
    /\ UNCHANGED <<context, loop_counters, step_index, mode, cur, attempt>>

\* Lines 139-141: _handle_failure returned False.
Abort ==
    /\ AppendThen("WORKFLOW_ABORTED", Some(steps[step_index].id),
                  [reason |-> <<"Step", "failed", "with", "abort", "strategy">>],
                  "return_false")
    /\ UNCHANGED <<context, loop_counters, step_index, mode, cur, attempt>>

\* Strategy as it would be if self_heal let the run continue.
Strategy_self_heal_as_skip(step) ==
    IF IsNone(step.on_failure) THEN "abort"
    ELSE IF Get(step.on_failure).strategy = "self_heal" THEN "skip"
    ELSE Get(step.on_failure).strategy

\* Strategy as it would be if skip were handled like abort.
Strategy_skip_as_abort(step) ==
    IF IsNone(step.on_failure) \/ Get(step.on_failure).strategy = "skip" THEN "abort"
    ELSE Get(step.on_failure).strategy

\* Strategy as it would be if a missing policy meant skip.
Strategy_default_skip(step) ==
    IF IsNone(step.on_failure) THEN "skip" ELSE Get(step.on_failure).strategy

Strategy(step) ==
    IF IsNone(step.on_failure) THEN "abort" ELSE Get(step.on_failure).strategy

\* range(max_retries or 3)
MaxRetries(step) ==
    LET m == Get(step.on_failure).max_retries
    IN  IF IsNone(m) \/ Get(m) = 0 THEN DefaultMaxRetries ELSE Get(m)

\* The fallback as it would be if it ran the failed step itself again.
FallbackIndex_original(step) ==
    CHOOSE idx \in DOMAIN steps : steps[idx] = step

\* The step _handle_failure falls back to: the first one named fallback_step.
FallbackIndex(step) ==
    LET f == Get(step.on_failure).fallback_step
        I == IF IsNone(f) \/ Get(f) = "" THEN {}
             ELSE {idx \in DOMAIN steps : steps[idx].id = Get(f)}
    IN  IF I = {} THEN 0 ELSE CHOOSE i \in I : \A j \in I : i <= j

\* _execute_step returned False to the loop: _handle_failure (lines 136-141, 309-359).
HandleFailure ==
    /\ pc = "ret_false"
    /\ mode = "main"
    /\ LET step == steps[step_index]
           s    == Strategy(step)
       IN  IF s = "skip"
           THEN /\ step_index' = step_index + 1
                /\ pc' = "loop"
                /\ UNCHANGED <<disk, after, events, context, loop_counters, mode, cur,
                               attempt>>
           ELSE IF s = "retry" /\ MaxRetries(step) > 0
           THEN /\ mode' = "retry"
                /\ attempt' = MaxRetries(step) - 1
                /\ cur' = step_index
                /\ pc' = "exec"
                /\ UNCHANGED <<disk, after, events, context, loop_counters, step_index>>
           ELSE IF s = "fallback" /\ FallbackIndex(step) > 0
           THEN /\ mode' = "fallback"
                /\ cur' = FallbackIndex(step)
                /\ pc' = "exec"
                /\ UNCHANGED <<disk, after, events, context, loop_counters, step_index,
                               attempt>>
           ELSE Abort
    /\ UNCHANGED <<wf, resume, result, runs, log0, ncalls, sent, acked>>

\* A retry of _handle_failure's loop failed (lines 330-335).
RetryFailed ==
    /\ pc = "ret_false"
    /\ mode = "retry"
    /\ IF attempt > 0
       THEN /\ attempt' = attempt - 1
            /\ pc' = "exec"
            /\ UNCHANGED <<disk, after, events, context, loop_counters, step_index,
                           mode, cur>>
       ELSE Abort
    /\ UNCHANGED <<wf, resume, result, runs, log0, ncalls, sent, acked>>

\* The fallback step failed (line 344 returns False).
FallbackFailed ==
    /\ pc = "ret_false"
    /\ mode = "fallback"
    /\ Abort
    /\ UNCHANGED <<wf, resume, result, runs, log0, ncalls, sent, acked>>

\* The exit code of the command line (executor.py, __main__): 0 when
\* run_workflow returned True, 1 when it returned False or raised.
ExitCode(outcome) == IF outcome = "true" THEN 0 ELSE 1

\* The return as it would be if run_workflow returned True on both paths.
Return_always_true ==
    /\ pc \in {"return_true", "return_false"}
    /\ result' = "true"
    /\ pc' = "idle"
    /\ UNCHANGED <<wf, disk, after, resume, events, context, loop_counters, step_index,
                   mode, cur, attempt, runs, log0, ncalls, sent, acked>>

\* run_workflow returns (lines 141 and 147) and the process exits.
Return ==
    /\ pc \in {"return_true", "return_false"}
    /\ result' = IF pc = "return_true" THEN "true" ELSE "false"
    /\ pc' = "idle"
    /\ UNCHANGED <<wf, disk, after, resume, events, context, loop_counters, step_index,
                   mode, cur, attempt, runs, log0, ncalls, sent, acked>>

\* The process dies; only the file survives.
Crash ==
    /\ pc # "idle"
    /\ pc' = "idle"
    /\ result' = "crashed"
    /\ events' = << >>
    /\ context' = Empty
    /\ loop_counters' = Empty
    /\ step_index' = 0
    /\ mode' = "main"
    /\ cur' = 0
    /\ attempt' = 0
    /\ after' = "seed"
    /\ UNCHANGED <<wf, disk, resume, runs, log0, ncalls, sent, acked>>

Init ==
    /\ wf \in Workflows
    /\ disk = NoFile
    /\ pc = "idle"
    /\ after = "seed"
    /\ resume = FALSE
    /\ events = << >>
    /\ context = Empty
    /\ loop_counters = Empty
    /\ step_index = 0
    /\ mode = "main"
    /\ cur = 0
    /\ attempt = 0
    /\ result = "none"
    /\ runs = 0
    /\ log0 = NoFile
    /\ ncalls = 0
    /\ sent = << >>
    /\ acked = << >>

Next ==
    \/ \E r \in BOOLEAN : StartRun(r)
    \/ Seed
    \/ HandleLoopBegin
    \/ HandleLoopEnd
    \/ HandleSwitch
    \/ Dispatch
    \/ Complete
    \/ ExecStart
    \/ SkipContext
    \/ \E outcome \in ToolOutcomes, importOk \in BOOLEAN, fileOk \in BOOLEAN :
          Act(outcome, importOk, fileOk)
    \/ StepSucceeded
    \/ HandleFailure
    \/ RetryFailed
    \/ FallbackFailed
    \/ Return
    \/ Persist
    \/ Crash

Spec == Init /\ [][Next]_vars

----------------------------------------------------------------------------
(* Loading and validation alone: run_workflow lines 64-93 on every document
   of up to MaxSteps steps, with and without an event log left by an
   earlier run *)

MaxSteps == 4

\* The steps the documents are made of: a step without extension, the
\* loop_begin and loop_end steps of two loops, a step of an extension that
\* is not registered, and a step whose fallback_step names no step.
StepKinds ==
    { AOLStep("n"),
      [AOLStep("A") EXCEPT !.loop_begin = Some([max_iterations |-> 1])],
      [AOLStep("B") EXCEPT !.loop_begin = Some([max_iterations |-> 1])],
      [AOLStep("E") EXCEPT !.loop_end = Some([loop_id |-> "A", exit_when |-> <<"true">>])],
      [AOLStep("F") EXCEPT !.loop_end = Some([loop_id |-> "B", exit_when |-> <<"true">>])],
      [AOLStep("x") EXCEPT !.extension = Some("Python")],
      [AOLStep("u") EXCEPT !.on_failure = AOLOnFailure("fallback", None, Some("zz"))] }

StepLists == UNION { [1..n -> StepKinds] : n \in 0..MaxSteps }

\* The log file a completed earlier run has left.
OldLog ==
    _persist(Append(initialize_state(WLinear.user_inputs),
                    Event("WORKFLOW_COMPLETE", None, NoPayload)))

InitLoad ==
    /\ wf \in {Workflow(<< >>, s) : s \in StepLists} \cup {WBadDoc}
    /\ disk \in {NoFile, OldLog}
    /\ log0 = disk
    /\ pc = "idle"
    /\ after = "seed"
    /\ resume = FALSE
    /\ events = << >>
    /\ context = Empty
    /\ loop_counters = Empty
    /\ step_index = 0
    /\ mode = "main"
    /\ cur = 0
    /\ attempt = 0
    /\ result = "none"
    /\ runs = 0
    /\ ncalls = 0
    /\ sent = << >>
    /\ acked = << >>

NextLoad == \E r \in BOOLEAN : StartRun(r)

SpecLoad == InitLoad /\ [][NextLoad]_vars

----------------------------------------------------------------------------
(* Condition evaluation alone: a run of a one-step workflow up to the point
   where _execute_step has evaluated the condition of the step, for every
   condition made of up to MaxParts simple conditions joined by and / or *)

MaxParts == 3

\* "not " n times before the text.
RECURSIVE Nots(_, _)
Nots(n, text) == IF n = 0 THEN text ELSE <<"not">> \o Nots(n - 1, text)

\* The simple conditions the expressions are made of: a word, a boolean
\* literal, a negation, numeric comparisons of literals and of a reference
\* that resolves, an equality of references that do not resolve, a
\* reference without a dot, and the deepest negation the call stack holds
\* and the first one it does not hold.
Parts ==
    { <<"a">>,
      <<"false">>,
      <<"not", "a">>,
      Quoted("5") \o <<">">> \o Quoted("3"),
      Quoted("{{user_inputs.prompt}}") \o <<">=">> \o Quoted("3"),
      Quoted("abc") \o <<"<">> \o Quoted("3"),
      <<"{{c.stdout}}", "==", "{{c.stdout}}">>,
      <<"{{bad}}">>,
      Nots(MaxNot, <<"a">>),
      Nots(MaxNot + 1, <<"a">>) }

Connectives == {"and", "or"}

\* parts[i] conn[i] parts[i+1] ... up to the last part.
RECURSIVE Build(_, _, _)
Build(parts, conn, i) ==
    IF i = Len(parts) THEN parts[i]
    ELSE parts[i] \o <<conn[i]>> \o Build(parts, conn, i + 1)

\* The conditions of up to max simple conditions.
Expressions(max) ==
    UNION { { Build(parts, conn, 1) :
                parts \in [1..n -> Parts], conn \in [1..(n - 1) -> Connectives] } :
            n \in 1..max }

\* The prompts of the documents: a word and a number.
Prompts == { <<"go">>, <<"5">> }

EvalWorkflow(expression, prompt) ==
    [Workflow(<< >>, << [BashStep("c", <<"echo">>) EXCEPT !.condition = Some(expression)] >>)
        EXCEPT !.user_inputs.prompt = prompt]

InitEval ==
    /\ wf \in {EvalWorkflow(e, p) : e \in Expressions(MaxParts), p \in Prompts}
    /\ disk = NoFile
    /\ log0 = NoFile
    /\ pc = "idle"
    /\ after = "seed"
    /\ resume = FALSE
    /\ events = << >>
    /\ context = Empty
    /\ loop_counters = Empty
    /\ step_index = 0
    /\ mode = "main"
    /\ cur = 0
    /\ attempt = 0
    /\ result = "none"
    /\ runs = 0
    /\ ncalls = 0
    /\ sent = << >>
    /\ acked = << >>

NextEval ==
    \/ StartRun(FALSE)
    \/ Persist
    \/ Seed
    \/ Dispatch
    \/ ExecStart

SpecEval == InitEval /\ [][NextEval]_vars

----------------------------------------------------------------------------
(* Properties *)

\* The current run got past load_aol_file and validate_dependencies.
Validated == wf.doc_ok /\ validate_dependencies(wf) = {}

Returned == pc = "idle" /\ result \in {"true", "false"} /\ Validated

Terminal == {"WORKFLOW_COMPLETE", "WORKFLOW_ABORTED"}

Outcomes == {"STEP_SUCCESS", "STEP_FAILURE", "STEP_SKIPPED"}

\* C1: when a run that passed loading and validation has returned, with or
\* without --resume and whatever earlier runs left in the log file, the log
\* (in memory and on disk) starts with STATE_ZERO, holds no other STATE_ZERO
\* and ends with WORKFLOW_COMPLETE or WORKFLOW_ABORTED.
C1_StateZeroFirstTerminalLast ==
    Returned =>
        /\ disk.state = "ok"
        /\ LET log == load(disk)
           IN  /\ log = events
               /\ Len(log) >= 2
               /\ log[1].event_type = "STATE_ZERO"
               /\ \A i \in 2..Len(log) : log[i].event_type # "STATE_ZERO"
               /\ Last(log).event_type \in Terminal

\* A run without --resume has returned although an earlier run had left a log.
C1_Witness ==
    /\ Returned
    /\ ~resume
    /\ log0.state = "ok"
    /\ Len(log0.data) >= 2
    /\ Last(events).event_type = "WORKFLOW_ABORTED"

\* The index after the step named by the most recent STEP_SUCCESS of a log
\* (1 when the log has none), read off the log directly.
ExpectedStart(log) ==
    LET S == {i \in DOMAIN log : log[i].event_type = "STEP_SUCCESS"}
    IN  IF S = {} THEN {1}
        ELSE LET last == CHOOSE i \in S : \A j \in S : j <= i
             IN  {idx + 1 : idx \in {k \in DOMAIN steps : Some(steps[k].id) = log[last].step_id}}

\* C2: a run with --resume over an existing log enters the execution loop at
\* the index right after the step named by the most recent STEP_SUCCESS of
\* the loaded log (at the first step when there is none), having executed
\* nothing before: no extension call and no event of its own.
C2_ResumeStartsAfterLastSuccess ==
    [][ (pc = "seed" /\ pc' = "loop" /\ resume /\ log0.state = "ok")
        => /\ step_index' \in ExpectedStart(load(log0))
           /\ ncalls' = 0
           /\ events' = load(log0) ]_vars

\* A resumed run is about to start at the third step although the loaded log
\* goes on, after the last STEP_SUCCESS, with a start and a failure.
C2_Witness ==
    /\ pc = "loop"
    /\ resume
    /\ log0.state = "ok"
    /\ events = load(log0)
    /\ step_index = 3
    /\ ncalls = 0
    /\ \E i \in DOMAIN events :
          /\ events[i].event_type = "STEP_SUCCESS"
          /\ i + 2 <= Len(events)
          /\ events[i + 1].event_type = "STEP_START"
          /\ events[i + 2].event_type = "STEP_FAILURE"

\* The step whose failure _execute_step has just reported has no on_failure
\* policy, or the policy abort.
FailedWithAbort ==
    /\ pc = "ret_false"
    /\ \/ IsNone(steps[cur].on_failure)
       \/ Get(steps[cur].on_failure).strategy = "abort"

\* WORKFLOW_ABORTED has been appended by the current run, which is returning.
Aborting ==
    \/ pc = "persist" /\ after = "return_false"
    \/ pc = "return_false"

\* C3: when a regular step without on_failure policy, or with strategy abort,
\* has failed, the next thing the run does is append WORKFLOW_ABORTED; from
\* then on the run appends no event and calls no extension, and it ends by
\* returning False (or by the death of the process).
C3_AbortStopsTheRun ==
    [][ /\ (FailedWithAbort /\ pc' # "idle")
            => /\ events' = Append(events, events'[Len(events')])
               /\ Last(events').event_type = "WORKFLOW_ABORTED"
               /\ ncalls' = ncalls
               /\ Aborting'
        /\ Aborting
            => /\ ncalls' = ncalls
               /\ \/ Aborting' /\ events' = events
                  \/ pc' = "idle" /\ result' = "false" /\ events' = events
                  \/ pc' = "idle" /\ result' = "crashed" ]_vars

\* A step without policy failed after its tool was called, and the run has
\* appended WORKFLOW_ABORTED and is returning False.
C3_Witness ==
    /\ pc = "return_false"
    /\ IsNone(steps[cur].on_failure)
    /\ ncalls > 0
    /\ Len(events) >= 2
    /\ Last(events).event_type = "WORKFLOW_ABORTED"
    /\ events[Len(events) - 1].event_type = "STEP_FAILURE"

\* Some path extracted from the step's inputs is denied by the checker.
SomePathDenied(step) ==
    \E p \in {extract_paths_from_inputs(step.inputs)[i] :
                 i \in DOMAIN extract_paths_from_inputs(step.inputs)} :
        ~verify_entitlements(wf.provider.entitlements, Get(step.extension), p)

C5_AppendOnly ==
    /\ [][ (pc # "idle" /\ pc' # "idle")
           => \/ events' = events
              \/ /\ Len(events') = Len(events) + 1
                 /\ SubSeq(events', 1, Len(events)) = events ]_vars
    /\ []( (pc \notin {"idle", "persist"})
           => (disk.state = "ok" /\ load(disk) = events /\ Len(disk.data) = Len(events)) )

\* Several appends of one run have returned, the last with a payload.
C5_Witness ==
    /\ pc = "ret_true"
    /\ Len(events) >= 5
    /\ events[1].event_type = "STATE_ZERO"
    /\ Last(events).event_type = "STEP_SUCCESS"
    /\ load(disk) = events

\* C6: when the process has died after an append had returned, the log file
\* is a loadable event array that holds every event whose append had
\* returned.  (EventLog._persist truncates the file before it writes.)
C6_CrashKeepsReturnedAppends ==
    (pc = "idle" /\ result = "crashed" /\ acked # << >>)
        => (disk.state = "ok" /\ IsPrefix(acked, load(disk)))

\* C7 as stated: when a later run has returned, with or without --resume,
\* the file still starts with the events the earlier run had persisted.
C7_EarlierEventsKeptByEveryRun ==
    (Returned /\ log0.state = "ok")
        => (disk.state = "ok" /\ IsPrefix(log0.data, disk.data))

\* C7, amended: in a run with --resume that started from a loadable log file,
\* whenever no append is in progress and when the run has returned, the file
\* starts with the events the earlier run had persisted, unchanged and in
\* the same order.
C7_EarlierEventsKeptByResume ==
    (resume /\ log0.state = "ok" /\ (Returned \/ pc \notin {"idle", "persist"}))
        => (disk.state = "ok" /\ IsPrefix(log0.data, disk.data))

\* A resumed run has returned after adding events to a log an earlier run
\* had left with at least three events.
C7_Witness ==
    /\ Returned
    /\ resume
    /\ log0.state = "ok"
    /\ Len(log0.data) >= 3
    /\ Len(disk.data) > Len(log0.data)

\* The event at position i of the log has, before it, a STEP_START of the
\* same step with no outcome event of that step in between.
PrecededByStart(log, i) ==
    \E j \in 1..(i - 1) :
        /\ log[j].event_type = "STEP_START"
        /\ log[j].step_id = log[i].step_id
        /\ \A k \in (j + 1)..(i - 1) :
              ~(log[k].event_type \in Outcomes /\ log[k].step_id = log[i].step_id)

\* The logs there are: the one in memory and the one a loadable file holds.
Logs == {events} \cup (IF disk.state = "ok" THEN {load(disk)} ELSE {})

\* C8 as stated: every STEP_SUCCESS, STEP_FAILURE and STEP_SKIPPED event of
\* a log is preceded by a STEP_START of the same step in the same attempt.
C8_EveryOutcomeAfterStart ==
    \A log \in Logs : \A i \in DOMAIN log :
        log[i].event_type \in Outcomes => PrecededByStart(log, i)

\* C8, amended: every STEP_SUCCESS and STEP_FAILURE event of a log is
\* preceded by a STEP_START of the same step in the same attempt (a
\* STEP_SKIPPED is appended without a STEP_START).
C8_SuccessAndFailureAfterStart ==
    \A log \in Logs : \A i \in DOMAIN log :
        log[i].event_type \in {"STEP_SUCCESS", "STEP_FAILURE"} => PrecededByStart(log, i)

\* A step failed and then succeeded in a retry: the log holds, for one step,
\* a STEP_FAILURE, a later STEP_START and a STEP_SUCCESS after that.
C8_Witness ==
    \E i, j, k \in DOMAIN events :
        /\ i < j /\ j < k
        /\ events[i].event_type = "STEP_FAILURE"
        /\ events[j].event_type = "STEP_START"
        /\ events[k].event_type = "STEP_SUCCESS"
        /\ events[i].step_id = events[j].step_id
        /\ events[j].step_id = events[k].step_id

\* C9: the Context Store has an entry under a regular step's id only if a
\* STEP_SUCCESS or STEP_SKIPPED event for that id is in the event log.
C9_ContextOnlyAfterSuccessOrSkip ==
    \A idx \in DOMAIN steps :
        (IsRegular(steps[idx]) /\ steps[idx].id \in DOMAIN context)
            => \E i \in DOMAIN events :
                  /\ events[i].event_type \in {"STEP_SUCCESS", "STEP_SKIPPED"}
                  /\ events[i].step_id = Some(steps[idx].id)

\* C10: between steps of a run, every step id with a STEP_SUCCESS event in
\* the event log has a Context Store entry with the keys stdout, stderr,
\* exit_code, result and is_error.
C10_SuccessHasContextEntry ==
    pc = "loop"
        => \A i \in DOMAIN events :
              events[i].event_type = "STEP_SUCCESS"
                  => /\ Get(events[i].step_id) \in DOMAIN context
                     /\ {"stdout", "stderr", "exit_code", "result", "is_error"}
                            \subseteq DOMAIN context[Get(events[i].step_id)]

\* The run has not yet seeded the Context Store (it is loading or creating
\* its log).
BeforeSeed == pc = "seed" \/ (pc = "persist" /\ after = "seed")

\* The events the run starts from: the loaded log, or a new STATE_ZERO.
InitialEvents ==
    IF resume /\ log0.state = "ok" THEN load(log0) ELSE initialize_state(wf.user_inputs)

\* C11: user_inputs and provider are in the Context Store before the run
\* appends its first step event or calls an extension (until they are
\* written the run has made no call and its log is the one it started
\* from), and no step of a run removes an id from the Context Store.
C11_SeededFirstNeverShrinks ==
    /\ [][ (pc # "idle" /\ pc' # "idle") => DOMAIN context \subseteq DOMAIN context' ]_vars
    /\ []( BeforeSeed => (ncalls = 0 /\ events = InitialEvents) )
    /\ []( (pc # "idle" /\ ~BeforeSeed)
              => {"user_inputs", "provider"} \subseteq DOMAIN context )

\* Between two steps, after a tool call: the Context Store holds the two
\* seeded entries, the entry of a called step and the marker of a skipped one.
C11_Witness ==
    /\ pc = "loop"
    /\ ncalls > 0
    /\ {"user_inputs", "provider"} \subseteq DOMAIN context
    /\ Cardinality(DOMAIN context) >= 4
    /\ \E id \in DOMAIN context : DOMAIN context[id] = {"skipped"}

\* The event is a LOOP_ITERATION of loop id with counter n.
IsIteration(e, id, n) ==
    e.event_type = "LOOP_ITERATION" /\ e.step_id = id /\ e.payload.counter = n

\* C12: in every event log, whatever runs and resumes produced it, a
\* LOOP_ITERATION event with counter n > 1 has before it a LOOP_ITERATION
\* event of the same step id with counter n - 1.
C12_IterationCountersHavePredecessor ==
    \A log \in Logs : \A i \in DOMAIN log :
        (log[i].event_type = "LOOP_ITERATION" /\ log[i].payload.counter > 1)
            => \E j \in 1..(i - 1) :
                   IsIteration(log[j], log[i].step_id, log[i].payload.counter - 1)

\* A resumed run counted the loop from 1 again and went on to 2: the log
\* holds the counters 1, 1, 2 of one loop in this order.
C12_Witness ==
    /\ resume
    /\ \E i, j, k \in DOMAIN events :
          /\ i < j /\ j < k
          /\ IsIteration(events[i], events[k].step_id, 1)
          /\ IsIteration(events[j], events[k].step_id, 1)
          /\ IsIteration(events[k], events[k].step_id, 2)

\* The events the current run has appended itself.
OwnEvents == SubSeq(events, Len(InitialEvents) + 1, Len(events))

\* How many events of the log have the given type and step id.
CountEvents(log, event_type, id) ==
    Cardinality({i \in DOMAIN log :
                    log[i].event_type = event_type /\ log[i].step_id = Some(id)})

\* The index right after the first loop_end of loop id behind index idx, or
\* the end of the workflow.
AfterLoopEnd(idx, id) ==
    LET E == {j \in (idx + 1)..Len(steps) :
                 ~IsNone(steps[j].loop_end) /\ Get(steps[j].loop_end).loop_id = id}
    IN  IF E = {} THEN Len(steps) + 1 ELSE (CHOOSE j \in E : \A k \in E : j <= k) + 1

\* The run is at a loop_begin, about to handle it.
AtLoopBegin ==
    pc = "loop" /\ step_index <= Len(steps) /\ ~IsNone(steps[step_index].loop_begin)

\* C13: a loop's counter is the number of arrivals of the run at its
\* loop_begin.  With max_iterations m > 0, an arrival enters the body (the
\* next step) while the counter is at most m, and the (m+1)-th passes
\* directly behind the matching loop_end, or to the end of the workflow,
\* calling nothing; so a run that starts at the top starts a body step of
\* the loop at most m times (exactly once when m = 1 and the run completes),
\* retries of a failed body step aside.
\* With max_iterations 0 every arrival enters the body.
C13_MaxIterationsBoundsTheBody ==
    /\ [][ (AtLoopBegin /\ pc' # "idle")
           => LET id == steps[step_index].id
                  m  == Get(steps[step_index].loop_begin).max_iterations
                  n  == loop_counters'[id]
              IN  /\ n = CountEvents(OwnEvents', "LOOP_ITERATION", id)
                  /\ ncalls' = ncalls
                  /\ step_index' = IF m > 0 /\ n > m
                                   THEN AfterLoopEnd(step_index, id)
                                   ELSE step_index + 1 ]_vars
    /\ []( (pc # "idle" /\ ~resume)
           => \A idx \in DOMAIN steps :
                 (~IsNone(steps[idx].loop_begin)
                  /\ Get(steps[idx].loop_begin).max_iterations > 0
                  /\ Strategy(steps[idx + 1]) # "retry")
                     => LET m == Get(steps[idx].loop_begin).max_iterations
                            b == CountEvents(events, "STEP_START", steps[idx + 1].id)
                        IN  /\ b <= m
                            /\ (Last(events).event_type = "WORKFLOW_COMPLETE" /\ m = 1)
                                   => b = 1 )

\* max_iterations is 1 and the exit condition never holds: the second
\* arrival at the loop_begin went behind the loop_end after one body execution.
C13_Witness ==
    /\ wf = WLoopMax
    /\ ~resume
    /\ pc = "loop"
    /\ step_index = Len(steps) + 1
    /\ loop_counters["L"] = 2
    /\ IsIteration(Last(events), Some("L"), 2)
    /\ CountEvents(events, "STEP_START", "w") = 1

\* What the claim looks at in an event: its type, its step id and, for a
\* LOOP_ITERATION, its counter.
Shape(e) ==
    <<e.event_type, e.step_id,
      IF e.event_type = "LOOP_ITERATION" THEN e.payload.counter ELSE 0>>

\* The log of a counting loop L, w, E that exits at counter k, position by
\* position: STATE_ZERO, then k times LOOP_ITERATION(j), STEP_START(w),
\* STEP_SUCCESS(w), then WORKFLOW_COMPLETE.
CountingLoopLog(k) ==
    [i \in 1..(3 * k + 2) |->
        IF i = 1 THEN <<"STATE_ZERO", None, 0>>
        ELSE IF i = 3 * k + 2 THEN <<"WORKFLOW_COMPLETE", None, 0>>
        ELSE IF i % 3 = 2 THEN <<"LOOP_ITERATION", Some("L"), (i + 1) \div 3>>
        ELSE IF i % 3 = 0 THEN <<"STEP_START", Some("w"), 0>>
        ELSE <<"STEP_SUCCESS", Some("w"), 0>>]

\* No execution of a step has failed in the log.
NoFailure == \A i \in DOMAIN events : events[i].event_type # "STEP_FAILURE"

\* The k of the counting loop: the max_iterations of its loop_begin, which is
\* also the number its exit condition compares the counter with.
LoopLimit == Get(steps[1].loop_begin).max_iterations

\* C14: in a run from the top of the workflow L (max_iterations k), w, E
\* (exit when "{{L.counter}}" >= "k") in which the body step never fails,
\* the log is at every moment a prefix of STATE_ZERO, k times
\* (LOOP_ITERATION j, STEP_START w, STEP_SUCCESS w) for j = 1..k,
\* WORKFLOW_COMPLETE; the run returns True with exactly that log; and the
\* j-th call of the body step gets {{L.counter}} interpolated as j.
C14_CountingLoopRunsKTimes ==
    /\ []( (wf = WLoop /\ ~resume /\ pc # "idle" /\ NoFailure)
              => IsPrefix([i \in DOMAIN events |-> Shape(events[i])],
                          CountingLoopLog(LoopLimit)) )
    /\ []( (wf = WLoop /\ ~resume /\ Returned /\ NoFailure)
              => /\ result = "true"
                 /\ [i \in DOMAIN events |-> Shape(events[i])] = CountingLoopLog(LoopLimit)
                 /\ load(disk) = events )
    /\ [][ (wf = WLoop /\ ~resume /\ ncalls' > ncalls)
              => /\ ncalls' = loop_counters["L"]
                 /\ sent' = << [key |-> "command",
                               value |-> <<"echo", StrOfInt(ncalls')>>] >> ]_vars

\* The counting loop has run to its end: the second call got the counter 2
\* and the run returned True.
C14_Witness ==
    /\ wf = WLoop
    /\ ~resume
    /\ Returned
    /\ result = "true"
    /\ NoFailure
    /\ ncalls = 2
    /\ sent = << [key |-> "command", value |-> <<"echo", "2">>] >>
    /\ CountEvents(events, "LOOP_ITERATION", "L") = 2

\* The max_retries the claim reads off a retry policy: the value written, 3
\* when none is.
StatedMaxRetries(step) ==
    IF IsNone(Get(step.on_failure).max_retries) THEN DefaultMaxRetries
    ELSE Get(Get(step.on_failure).max_retries)

\* The workflow has no loop: a run from the top visits each step at most once.
NoLoops == \A idx \in DOMAIN steps : IsNone(steps[idx].loop_begin)

\* C15: a step with strategy retry is attempted at most 1 + max_retries
\* times in one visit (3 standing for an absent max_retries, and
\* max_retries = 0 meaning no retry); once an attempt has succeeded the run
\* does not abort because of the step.
C15_AtMostOnePlusMaxRetriesAttempts ==
    (pc # "idle" /\ ~resume /\ NoLoops)
        => \A idx \in DOMAIN steps :
              (IsRegular(steps[idx]) /\ Strategy(steps[idx]) = "retry")
                  => /\ CountEvents(events, "STEP_START", steps[idx].id)
                            <= 1 + StatedMaxRetries(steps[idx])
                     /\ CountEvents(events, "STEP_SUCCESS", steps[idx].id) > 0
                            => CountEvents(events, "WORKFLOW_ABORTED", steps[idx].id) = 0

\* _execute_step has reported the failure of the step the loop is at, whose
\* policy is fallback.
FailedWithFallback ==
    /\ pc = "ret_false"
    /\ mode = "main"
    /\ ~IsNone(steps[step_index].on_failure)
    /\ Get(steps[step_index].on_failure).strategy = "fallback"

\* The step appends WORKFLOW_ABORTED and nothing else, and the run is returning.
AbortsNow ==
    /\ Len(events') = Len(events) + 1
    /\ SubSeq(events', 1, Len(events)) = events
    /\ Last(events').event_type = "WORKFLOW_ABORTED"
    /\ ncalls' = ncalls
    /\ Aborting'

\* C16: when a step with strategy fallback has failed, the step whose id
\* equals fallback_step is executed, once and only from there, and the
\* failed step is not executed again; when that execution reports success
\* the run goes on with the step after the failed one, and when it reports
\* failure, or when fallback_step is absent, the workflow aborts.
C16_FallbackRunsOnce ==
    [][ /\ (FailedWithFallback /\ pc' # "idle")
            => LET f == Get(steps[step_index].on_failure).fallback_step
               IN  IF IsNone(f) THEN AbortsNow
                   ELSE /\ pc' = "exec" /\ mode' = "fallback"
                        /\ steps[cur'].id = Get(f)
                        /\ cur' # step_index
                        /\ events' = events /\ step_index' = step_index
        /\ (pc' = "exec" /\ mode' = "fallback") => FailedWithFallback
        /\ (mode = "fallback" /\ pc \in {"exec", "persist", "act", "skip_ctx"}
            /\ pc' # "idle")
            => (mode' = "fallback" /\ cur' = cur /\ step_index' = step_index)
        /\ (mode = "fallback" /\ pc = "ret_true" /\ pc' # "idle")
            => (pc' = "loop" /\ step_index' = step_index + 1 /\ events' = events)
        /\ (mode = "fallback" /\ pc = "ret_false" /\ pc' # "idle")
            => AbortsNow ]_vars

\* The fallback step succeeded after the original failed once: the run is
\* at the step after the original.
C16_Witness ==
    /\ wf = WFallback
    /\ ~resume
    /\ pc = "loop"
    /\ step_index = 2
    /\ Len(events) = 5
    /\ Shape(events[2]) = <<"STEP_START", Some("b"), 0>>
    /\ Shape(events[3]) = <<"STEP_FAILURE", Some("b"), 0>>
    /\ Shape(events[4]) = <<"STEP_START", Some("f"), 0>>
    /\ Shape(events[5]) = <<"STEP_SUCCESS", Some("f"), 0>>

\* The steps of the workflow that have the given id and the policy skip.
SkipSteps(id) ==
    {idx \in DOMAIN steps :
        /\ Some(steps[idx].id) = id
        /\ ~IsNone(steps[idx].on_failure)
        /\ Get(steps[idx].on_failure).strategy = "skip"}

\* C17 as stated: the failure of a step with strategy skip never aborts the
\* workflow: in no log is the STEP_FAILURE of such a step followed directly
\* by WORKFLOW_ABORTED.
C17_SkipFailureNeverAborts ==
    \A log \in Logs : \A i \in DOMAIN log :
        (i > 1 /\ log[i].event_type = "WORKFLOW_ABORTED"
               /\ log[i - 1].event_type = "STEP_FAILURE")
            => SkipSteps(log[i - 1].step_id) = {}

\* C17, amended: when a step with strategy skip that the execution loop
\* itself reached (not one run as the fallback of another step) has
\* failed, the run appends nothing and calls nothing for it and goes on with
\* the next step in document order; no WORKFLOW_ABORTED names such a step.
C17_SkipContinuesInTheLoop ==
    /\ [][ (pc = "ret_false" /\ mode = "main"
            /\ SkipSteps(Some(steps[step_index].id)) # {} /\ pc' # "idle")
           => /\ pc' = "loop"
              /\ step_index' = step_index + 1
              /\ events' = events
              /\ ncalls' = ncalls ]_vars
    /\ []( \A log \in Logs : \A i \in DOMAIN log :
              log[i].event_type = "WORKFLOW_ABORTED" => SkipSteps(log[i].step_id) = {} )

\* A step with strategy skip failed after a tool call and the run is at the
\* next step, the STEP_FAILURE being the last event.
C17_Witness ==
    /\ pc = "loop"
    /\ mode = "main"
    /\ cur > 0
    /\ step_index = cur + 1
    /\ ncalls > 0
    /\ SkipSteps(Some(steps[cur].id)) # {}
    /\ Shape(Last(events)) = <<"STEP_FAILURE", Some(steps[cur].id), 0>>

\* _execute_step has reported the failure of the step the loop is at, whose
\* policy has the given strategy.
FailedWith(strategy) ==
    /\ pc = "ret_false"
    /\ mode = "main"
    /\ ~IsNone(steps[step_index].on_failure)
    /\ Get(steps[step_index].on_failure).strategy = strategy

\* What a run does after the failure of a step with strategy abort: it
\* appends WORKFLOW_ABORTED for the step, touches nothing else and is returning.
AbortStep ==
    /\ events' = Append(events,
                    Event("WORKFLOW_ABORTED", Some(steps[step_index].id),
                          [reason |-> <<"Step", "failed", "with", "abort", "strategy">>]))
    /\ Aborting'
    /\ <<context, loop_counters, step_index, ncalls, sent>>'
           = <<context, loop_counters, step_index, ncalls, sent>>

\* C18: the failure of a step with strategy self_heal is handled exactly as
\* with strategy abort: from the same state the run takes the same step
\* (WORKFLOW_ABORTED for the failed step is appended), after which it
\* appends nothing, calls no extension and returns False.
C18_SelfHealIsAbort ==
    [][ /\ \A s \in {"abort", "self_heal"} : (FailedWith(s) /\ pc' # "idle") => AbortStep
        /\ (Aborting /\ pc' # "idle") => (events' = events /\ ncalls' = ncalls)
        /\ (Aborting /\ pc' = "idle") => (result' \in {"false", "crashed"}) ]_vars

\* The run of the one-step workflow whose step has strategy self_heal has
\* returned False after one call, with the log of an aborted run.
C18_Witness ==
    /\ wf = WHeal
    /\ ~resume
    /\ Returned
    /\ result = "false"
    /\ ncalls = 1
    /\ [i \in DOMAIN events |-> Shape(events[i])]
          = << <<"STATE_ZERO", None, 0>>, <<"STEP_START", Some("d"), 0>>,
               <<"STEP_FAILURE", Some("d"), 0>>, <<"WORKFLOW_ABORTED", Some("d"), 0>> >>

\* The current run was started with --resume on the log of a run that had
\* ended with WORKFLOW_COMPLETE.
ResumedAfterComplete ==
    /\ Validated
    /\ resume
    /\ log0.state = "ok"
    /\ log0.data # << >>
    /\ Last(load(log0)).event_type = "WORKFLOW_COMPLETE"

\* C19: a run with --resume on the log of a run that ended with
\* WORKFLOW_COMPLETE invokes no extension and appends nothing but a
\* terminal event.
C19_ResumeAfterCompleteIsNoOp ==
    ResumedAfterComplete
        => /\ ncalls = 0
           /\ \A i \in (Len(log0.data) + 1)..Len(events) :
                 events[i].event_type \in Terminal

\* The loop ids of the workflow.
LoopIds == {steps[idx].id : idx \in {j \in DOMAIN steps : ~IsNone(steps[j].loop_begin)}}

\* C20: when a run with --resume has loaded its log and is about to execute
\* its first step, the counter of every loop is the counter of the most
\* recent LOOP_ITERATION event of that loop in the loaded log, 0 without one.
C20_ResumeRestoresLoopCounters ==
    (pc = "loop" /\ resume /\ log0.state = "ok" /\ events = load(log0))
        => \A id \in LoopIds :
              (IF id \in DOMAIN loop_counters THEN loop_counters[id] ELSE 0)
                  = get_loop_counter(events, id)

\* _execute_step is at its start, on a step whose condition evaluates to false.
ConditionFalse ==
    /\ pc = "exec"
    /\ ~IsNone(steps[cur].condition)
    /\ ~_evaluate_condition(context, Get(steps[cur].condition))

\* The run is between the STEP_SKIPPED append of a step and the return of
\* _execute_step to its caller.
Skipping ==
    \/ pc = "persist" /\ after = "skip_ctx"
    \/ pc = "skip_ctx"

\* C21: when the condition of a step is false, the run appends exactly one
\* event for it, STEP_SKIPPED, then writes {skipped: true} as the step's
\* Context Store entry and reports success: it never reaches the
\* entitlement check or the extension, makes no call, does not consult the
\* on_failure policy, and the loop goes on with the next index.
C21_FalseConditionSkips ==
    [][ /\ (ConditionFalse /\ pc' # "idle")
           => /\ events' = Append(events, Event("STEP_SKIPPED", Some(steps[cur].id),
                                               [reason |-> <<"Condition", "false">>]))
              /\ Skipping'
              /\ <<context, ncalls, sent, step_index, cur>>'
                     = <<context, ncalls, sent, step_index, cur>>
        /\ (Skipping /\ pc' # "idle")
           => /\ events' = events
              /\ <<ncalls, sent, step_index, cur>>' = <<ncalls, sent, step_index, cur>>
              /\ \/ Skipping' /\ context' = context
                 \/ /\ pc' = "ret_true"
                    /\ context' = Put(context, steps[cur].id, [skipped |-> TRUE])
        /\ (pc = "ret_true" /\ pc' # "idle")
           => /\ pc' = "loop"
              /\ step_index' = step_index + 1
              /\ <<events, context, ncalls>>' = <<events, context, ncalls>> ]_vars

\* The second step was skipped after the first had run: one STEP_SKIPPED
\* for it, its entry is {skipped: true}, one call was made and the run is
\* at the third step.
C21_Witness ==
    /\ wf = WLinear
    /\ ~resume
    /\ pc = "loop"
    /\ step_index = 3
    /\ ncalls = 1
    /\ context["s2"] = [skipped |-> TRUE]
    /\ CountEvents(events, "STEP_SKIPPED", "s2") = 1
    /\ CountEvents(events, "STEP_START", "s2") = 0
    /\ Shape(Last(events)) = <<"STEP_SKIPPED", Some("s2"), 0>>

\* The extension named by step idx of the loaded document is not registered.
Unregistered(idx) ==
    /\ ~IsNone(wf.steps[idx].extension)
    /\ IsNone(get_extension(Get(wf.steps[idx].extension)))

\* C22: when the first step of a well-formed document names an extension
\* that is not registered, a run not resumed that has returned has appended
\* a STEP_FAILURE event for that step with an 'extension not found' error.
C22_UnregisteredExtensionFailsTheStep ==
    ( /\ pc = "idle"
      /\ runs > 0
      /\ ~resume
      /\ result \in {"true", "false"}
      /\ wf.doc_ok
      /\ wf.steps # << >>
      /\ Unregistered(1)
      /\ IsNone(wf.steps[1].condition) )
    => \E i \in DOMAIN events :
          /\ events[i].event_type = "STEP_FAILURE"
          /\ events[i].step_id = Some(wf.steps[1].id)
          /\ events[i].payload = [error |-> <<"Extension", "not", "found">>]

\* The extension, reference and loop errors validate_dependencies looks for.
ExtensionErrors == {idx \in DOMAIN wf.steps : Unregistered(idx)}

ReferenceErrors == _validate_step_references(wf.steps, StepIds(wf.steps))

LoopErrors == _validate_loop_structure(wf.steps)

\* The document cannot be loaded, or one of the three validations reports
\* an error.
Rejected ==
    \/ ~wf.doc_ok
    \/ ExtensionErrors # {}
    \/ ReferenceErrors # {}
    \/ LoopErrors # {}

\* C23: a run whose document fails to load, names an unregistered extension,
\* references an unknown step or has an invalid loop structure has returned
\* False as soon as it has started, with the log file as it found it
\* (absent or with the earlier run's events), no event appended and no
\* extension called.
C23_RejectedRunTouchesNothing ==
    (runs > 0 /\ Rejected)
    => /\ pc = "idle"
       /\ result = "false"
       /\ disk = log0
       /\ disk \in {NoFile, OldLog}
       /\ events = << >>
       /\ ncalls = 0

\* A document naming an unregistered extension was run over the log of an
\* earlier run, and the log is still that log.
C23_Witness ==
    /\ runs = 1
    /\ wf.doc_ok
    /\ ExtensionErrors # {}
    /\ ReferenceErrors = {}
    /\ LoopErrors = {}
    /\ result = "false"
    /\ disk = OldLog

\* The loops of step_list[idx..] are properly nested, matched and closed when
\* the loops in open (innermost last) are the ones begun and not yet ended:
\* a loop_begin opens its loop, a loop_end must name the innermost open
\* loop, which it closes, and no loop is open at the end.
RECURSIVE Nested(_, _, _)
Nested(step_list, idx, open) ==
    IF idx > Len(step_list)
    THEN open = << >>
    ELSE IF ~IsNone(step_list[idx].loop_begin)
    THEN Nested(step_list, idx + 1, Append(open, step_list[idx].id))
    ELSE IF ~IsNone(step_list[idx].loop_end)
    THEN /\ open # << >>
         /\ Last(open) = Get(step_list[idx].loop_end).loop_id
         /\ Nested(step_list, idx + 1, SubSeq(open, 1, Len(open) - 1))
    ELSE Nested(step_list, idx + 1, open)

ProperlyNested == Nested(wf.steps, 1, << >>)

\* C24: for a step list whose loops are properly nested, matched and closed,
\* _validate_loop_structure reports no error, and a run of a loadable
\* document with such a list and no other error is not rejected.
C24_ProperNestingIsAccepted ==
    ProperlyNested
    => /\ LoopErrors = {}
       /\ (runs > 0 /\ wf.doc_ok /\ ExtensionErrors = {} /\ ReferenceErrors = {})
          => result # "false"

\* A run of loop B nested in loop A has passed validation and is writing
\* the first event of its log.
C24_Witness ==
    /\ runs = 1
    /\ Len(wf.steps) = 4
    /\ [i \in 1..4 |-> wf.steps[i].id] = <<"A", "B", "F", "E">>
    /\ ProperlyNested
    /\ result = "none"
    /\ pc = "persist"

\* C25: for a step list whose loops are not properly nested, matched and
\* closed, _validate_loop_structure reports at least one error.
C25_ImproperNestingIsRejected ==
    ~ProperlyNested => LoopErrors # {}

\* C26: whenever the run starts executing a step, the ids of the steps of
\* its workflow are pairwise distinct.
C26_ExecutedWorkflowsHaveDistinctIds ==
    pc = "exec"
    => \A i, j \in DOMAIN steps : steps[i].id = steps[j].id => i = j

\* The process of the latest run has exited by itself: run_workflow returned
\* or raised.
Exited == pc = "idle" /\ runs > 0 /\ result \in {"true", "false", "raised"}

\* The last event the run appended is WORKFLOW_COMPLETE.
CompletedLast ==
    OwnEvents # << >> /\ Last(OwnEvents).event_type = "WORKFLOW_COMPLETE"

\* C27: run_workflow has returned True exactly when the last event the run
\* appended is WORKFLOW_COMPLETE, the exit code is 0 exactly then and 1
\* otherwise, and when run_workflow has returned False after loading and
\* validation succeeded, the last event of the log, in memory and in the
\* file, is WORKFLOW_ABORTED.
C27_TrueIffCompleteLast ==
    Exited
    => /\ (result = "true") <=> CompletedLast
       /\ (ExitCode(result) = 0) <=> CompletedLast
       /\ (ExitCode(result) = 1) <=> ~CompletedLast
       /\ (result = "false" /\ Validated)
          => /\ OwnEvents # << >>
             /\ Last(events).event_type = "WORKFLOW_ABORTED"
             /\ disk.state = "ok"
             /\ Last(load(disk)).event_type = "WORKFLOW_ABORTED"

\* A resumed run over the log of a run that had failed has failed too and
\* returned False: its last event is WORKFLOW_ABORTED and the exit code is 1.
C27_Witness ==
    /\ Exited
    /\ resume
    /\ log0.state = "ok"
    /\ Last(load(log0)).event_type = "WORKFLOW_ABORTED"
    /\ result = "false"
    /\ ExitCode(result) = 1
    /\ Validated
    /\ Last(events).event_type = "WORKFLOW_ABORTED"

\* The index of the last STEP_FAILURE event of the log before position i, 0
\* when there is none.
LastFailureBefore(log, i) ==
    LET F == {j \in 1..(i - 1) : log[j].event_type = "STEP_FAILURE"}
    IN  IF F = {} THEN 0 ELSE CHOOSE j \in F : \A k \in F : k <= j

\* Step id is a step of the workflow that the failure recorded at log[j]
\* made fail: the failure is its own, or that of its fallback step.
FailedStep(id, log, j) ==
    \E idx \in DOMAIN steps :
        /\ steps[idx].id = id
        /\ IsRegular(steps[idx])
        /\ \/ log[j].step_id = Some(id)
           \/ /\ Strategy(steps[idx]) = "fallback"
              /\ log[j].step_id = Get(steps[idx].on_failure).fallback_step

\* C28 as stated: the payload of every WORKFLOW_ABORTED event of a log holds
\* the id of a step of the workflow.
C28_AbortedPayloadHasStepId ==
    \A log \in Logs : \A i \in DOMAIN log :
        log[i].event_type = "WORKFLOW_ABORTED"
        => \E k \in DOMAIN log[i].payload : \E t \in DOMAIN log[i].payload[k] :
              log[i].payload[k][t] \in StepIds(wf.steps)

\* C28, amended: every WORKFLOW_ABORTED event of a log carries in its
\* step_id field the id of the step of the main sequence that failed last
\* (a STEP_FAILURE event precedes it, and the last one is of that step or of
\* its fallback step), and its payload holds the reason text and nothing else.
C28_AbortedNamesTheFailedStep ==
    \A log \in Logs : \A i \in DOMAIN log :
        log[i].event_type = "WORKFLOW_ABORTED"
        => /\ ~IsNone(log[i].step_id)
           /\ DOMAIN log[i].payload = {"reason"}
           /\ log[i].payload.reason = <<"Step", "failed", "with", "abort", "strategy">>
           /\ LastFailureBefore(log, i) > 0
           /\ FailedStep(Get(log[i].step_id), log, LastFailureBefore(log, i))

\* Step b failed, its fallback step f failed, and the log on disk ends with
\* STEP_FAILURE of f and WORKFLOW_ABORTED of b.
C28_Witness ==
    /\ wf = WFallback
    /\ Returned
    /\ result = "false"
    /\ disk.state = "ok"
    /\ Len(load(disk)) >= 2
    /\ Shape(load(disk)[Len(load(disk)) - 1]) = <<"STEP_FAILURE", Some("f"), 0>>
    /\ Shape(Last(load(disk))) = <<"WORKFLOW_ABORTED", Some("b"), 0>>

\* The counters of the LOOP_ITERATION events of loop id in the log.
Counters(log, id) ==
    {log[i].payload.counter : i \in
        {j \in DOMAIN log : log[j].event_type = "LOOP_ITERATION"
                            /\ log[j].step_id = Some(id)}}

\* C29: for every log, in memory or in a loadable file, and every loop of
\* the workflow, get_loop_counter is the highest counter of the
\* LOOP_ITERATION events of the loop, and 0 when the log has none.
C29_LoopCounterIsHighest ==
    \A log \in Logs : \A id \in LoopIds :
        /\ \A c \in Counters(log, id) : c <= get_loop_counter(log, id)
        /\ get_loop_counter(log, id) \in Counters(log, id) \cup {0}
        /\ Counters(log, id) = {} => get_loop_counter(log, id) = 0

\* The execution loop is at a switch step.
AtSwitch ==
    /\ pc = "loop"
    /\ step_index <= Len(steps)
    /\ IsNone(steps[step_index].loop_begin)
    /\ IsNone(steps[step_index].loop_end)
    /\ ~IsNone(steps[step_index].switch)

\* The ids a switch step lists, under its cases and its default.
Listed(step) ==
    UNION { {Get(step.switch).cases[c].steps[k] :
                k \in DOMAIN Get(step.switch).cases[c].steps} :
            c \in DOMAIN Get(step.switch).cases }
    \cup {Get(step.switch).default[k] : k \in DOMAIN Get(step.switch).default}

\* The position of the first STEP_START of step id in the events of the
\* run, 0 when there is none.
StartedAt(id) ==
    LET P == {i \in DOMAIN OwnEvents : OwnEvents[i].event_type = "STEP_START"
                                       /\ OwnEvents[i].step_id = Some(id)}
    IN  IF P = {} THEN 0 ELSE CHOOSE i \in P : \A j \in P : i <= j

\* C30: at a switch step the only thing the run does is to go to the next
\* index: it appends nothing, calls nothing and leaves the Context Store and
\* the loop counters as they are, whatever the value selects; and in a run
\* not resumed of a workflow without loops that completes, the unconditional
\* regular steps behind the switch are all started, in document order, those
\* listed under cases that were not selected included.
C30_SwitchNeverJumps ==
    /\ [][ (AtSwitch /\ pc' # "idle")
           => /\ step_index' = step_index + 1
              /\ pc' = "loop"
              /\ <<events, disk, context, loop_counters, ncalls, sent>>'
                     = <<events, disk, context, loop_counters, ncalls, sent>> ]_vars
    /\ []( (Returned /\ result = "true" /\ ~resume /\ NoLoops)
           => \A sw \in DOMAIN steps : ~IsNone(steps[sw].switch)
              => \A i, j \in (sw + 1)..Len(steps) :
                    ( /\ i < j
                      /\ IsRegular(steps[i]) /\ IsNone(steps[i].condition)
                      /\ IsRegular(steps[j]) /\ IsNone(steps[j].condition) )
                    => /\ StartedAt(steps[i].id) > 0
                       /\ StartedAt(steps[i].id) < StartedAt(steps[j].id) )

\* The value of the switch selected the default, step b, and the run went
\* on with step a, listed under the case that was not selected, before b.
C30_Witness ==
    /\ wf = WSwitch
    /\ Returned
    /\ result = "true"
    /\ ~resume
    /\ matched_steps(context, steps[2]) = <<"b">>
    /\ "a" \in Listed(steps[2])
    /\ StartedAt("a") > 0
    /\ StartedAt("a") < StartedAt("b")

\* C31: when a run not resumed of a workflow without loops has completed,
\* its log holds, for every switch step, an event that names the step (the
\* record of the selection made when the step was reached).
C31_SwitchSelectionIsLogged ==
    (Returned /\ result = "true" /\ ~resume /\ NoLoops)
    => \A idx \in DOMAIN steps :
          (IsNone(steps[idx].loop_end) /\ ~IsNone(steps[idx].switch))
          => \E i \in DOMAIN events : events[i].step_id = Some(steps[idx].id)

\* _execute_step has evaluated the condition of the step it is at, and what
\* the evaluation returned: STEP_START follows true, STEP_SKIPPED false.
Evaluated ==
    /\ cur > 0
    /\ ~IsNone(steps[cur].condition)
    /\ \/ pc \in {"act", "skip_ctx"}
       \/ pc = "persist" /\ after \in {"act", "skip_ctx"}

Verdict == IF pc = "persist" THEN after = "act" ELSE pc = "act"

\* The condition of the step after interpolation.
Interpolated == _interpolate_string(context, Get(steps[cur].condition))

\* The text before and behind the word at position i.
Before(s, i) == SubSeq(s, 1, i - 1)

Behind(s, i) == SubSeq(s, i + 1, Len(s))

\* The two halves the split rule evaluates, none for a simple condition.
Halves ==
    LET s == Interpolated
    IN  IF FirstSpaced(s, "and") > 0
        THEN {Before(s, FirstSpaced(s, "and")), Behind(s, FirstSpaced(s, "and"))}
        ELSE IF FirstSpaced(s, "or") > 0
        THEN {Before(s, FirstSpaced(s, "or")), Behind(s, FirstSpaced(s, "or"))}
        ELSE {}

\* The split rule: AND of the halves around the first " and ", else OR of
\* the halves around the first " or ", else the simple condition.
SplitRule ==
    LET s == Interpolated
    IN  CASE FirstSpaced(s, "and") > 0 ->
                /\ _evaluate_simple_condition(Before(s, FirstSpaced(s, "and")))
                /\ _evaluate_simple_condition(Behind(s, FirstSpaced(s, "and")))
          [] FirstSpaced(s, "and") = 0 /\ FirstSpaced(s, "or") > 0 ->
                \/ _evaluate_simple_condition(Before(s, FirstSpaced(s, "or")))
                \/ _evaluate_simple_condition(Behind(s, FirstSpaced(s, "or")))
          [] OTHER -> _evaluate_simple_condition(s)

\* The half still contains " and " or " or " and has no comparison operator.
StillCompound(h) ==
    /\ FirstSpaced(h, "and") > 0 \/ FirstSpaced(h, "or") > 0
    /\ \A k \in DOMAIN ComparisonOps : FirstSpaced(h, ComparisonOps[k]) = 0

StartsWithNot(h) == Len(h) >= 2 /\ h[1] = "not"

\* C32 as stated: the evaluation follows the split rule, and every half that
\* still contains " and " or " or " and no comparison operator evaluates to
\* true.
C32_SplitRuleHalvesTrue ==
    Evaluated
    => /\ Verdict = SplitRule
       /\ \A h \in Halves : StillCompound(h) => _evaluate_simple_condition(h)

\* C32, amended: the evaluation follows the split rule, and a half that
\* still contains " and " or " or " and no comparison operator evaluates to
\* true when it does not start with "not ", and to false when it is "not "
\* followed by a text that does not start with "not ".
C32_SplitRuleHalvesTrueUnlessNegated ==
    Evaluated
    => /\ Verdict = SplitRule
       /\ \A h \in Halves :
             StillCompound(h)
             => IF ~StartsWithNot(h) THEN _evaluate_simple_condition(h)
                ELSE StartsWithNot(Tail(h)) \/ ~_evaluate_simple_condition(h)

\* The condition false or a and a was evaluated: the first " and " splits it
\* into false or a, a non-empty text that counts as true, and a; the step
\* is started.
C32_Witness ==
    /\ Evaluated
    /\ Interpolated = <<"false", "or", "a", "and", "a">>
    /\ <<"false", "or", "a">> \in Halves
    /\ Verdict
    /\ Last(events).event_type = "STEP_START"

\* The words of a condition that have the form of a reference.
IsReferenceText(t) == IsRef(t) \/ t = "{{bad}}"

\* The reference cannot be resolved: it has no dot, or the Context Store has
\* no such id or no such key under it.
Unresolvable(t) ==
    \/ ~IsRef(t)
    \/ RefOf(t).id \notin DOMAIN context
    \/ RefOf(t).key \notin DOMAIN context[RefOf(t).id]

NumericOps == {">", ">=", "<", "<="}

\* The text is one numeric comparison, without negation, in which a side
\* does not parse as a number.
MalformedNumeric(h) ==
    \E i \in DOMAIN h :
        /\ h[i] \in NumericOps
        /\ \A j \in DOMAIN h : j # i => \A k \in DOMAIN ComparisonOps : h[j] # ComparisonOps[k]
        /\ h[1] # "not"
        /\ \/ ~IsFloat(StripQuotes(Before(h, i)))
           \/ ~IsFloat(StripQuotes(Behind(h, i)))

\* C33: a run never ends with an exception raised by the evaluation of a
\* condition and the evaluation never fails the step (it is followed by
\* STEP_START or STEP_SKIPPED); a reference that cannot be resolved is left
\* as it is written; and a numeric comparison in which a side does not parse
\* as a number is false, as the whole condition and as a half of it.
C33_EvaluationNeverRaises ==
    /\ result # "raised"
    /\ Evaluated
       => /\ Last(events).event_type \in {"STEP_START", "STEP_SKIPPED"}
          /\ Last(events).step_id = Some(steps[cur].id)
          /\ \A i \in DOMAIN events : events[i].event_type # "STEP_FAILURE"
          /\ Len(Interpolated) = Len(Get(steps[cur].condition))
          /\ \A i \in DOMAIN Interpolated :
                ( /\ IsReferenceText(Get(steps[cur].condition)[i])
                  /\ Unresolvable(Get(steps[cur].condition)[i]) )
                => Interpolated[i] = Get(steps[cur].condition)[i]
          /\ (Halves = {} /\ MalformedNumeric(Interpolated)) => ~Verdict
          /\ \A h \in Halves : MalformedNumeric(h) => ~_evaluate_simple_condition(h)

\* The step of _execute_step that loads and calls the extension of step cur
\* is taken and the process is not killed in it.
Acting == pc = "act" /\ pc' # "idle"

\* The call of the extension raised: send_payload built the result from the
\* exception (its result field holds the error text).
CallRaised ==
    /\ ncalls' = ncalls + 1
    /\ "error" \in DOMAIN context'[steps[cur].id].result

\* The event appended by the step is STEP_FAILURE of step cur, and
\* _execute_step is returning False.
FailsStep ==
    /\ Len(events') = Len(events) + 1
    /\ Last(events').event_type = "STEP_FAILURE"
    /\ Last(events').step_id = Some(steps[cur].id)
    /\ after' = "ret_false"

\* C34: no step executing an extension ends the run with an exception:
\* when the call raised, the result stored for the step has is_error true,
\* exit_code 1 and the exception message as stderr, and the step fails with
\* a STEP_FAILURE event carrying them; when the extension could not be
\* loaded, or the step failed before the call, the STEP_FAILURE event
\* carries the error text; and the failure is then handled by the failure
\* policy: the run goes on, tries again, runs the fallback step or appends
\* WORKFLOW_ABORTED.
C34_ExtensionExceptionsBecomeFailures ==
    /\ [][ (pc = "act" \/ pc = "ret_false") => (result' = result \/ result' = "crashed") ]_vars
    /\ [][ (Acting /\ CallRaised)
           => /\ context'[steps[cur].id].is_error
              /\ context'[steps[cur].id].exit_code = <<"1">>
              /\ context'[steps[cur].id].stderr = context'[steps[cur].id].result.error
              /\ FailsStep
              /\ Last(events').payload.stderr = context'[steps[cur].id].stderr
              /\ Last(events').payload.exit_code = 1 ]_vars
    /\ [][ (Acting /\ ncalls' = ncalls /\ events' # events)
           => /\ FailsStep
              /\ DOMAIN Last(events').payload = {"error"}
              /\ context' = context ]_vars
    /\ [][ (pc = "ret_false" /\ pc' # "idle")
           => \/ pc' = "loop" /\ step_index' = step_index + 1 /\ events' = events
              \/ pc' = "exec" /\ events' = events
              \/ AbortsNow ]_vars

\* The call of the extension raised: the step has the failed result in the
\* Context Store and its STEP_FAILURE is being written.
C34_Witness ==
    /\ pc = "persist"
    /\ after = "ret_false"
    /\ ncalls > 0
    /\ steps[cur].id \in DOMAIN context
    /\ "error" \in DOMAIN context[steps[cur].id].result
    /\ context[steps[cur].id].stderr = <<"boom">>
    /\ Last(events).event_type = "STEP_FAILURE"
    /\ Last(events).payload.stderr = <<"boom">>

\* Every loop_begin of the workflow bounds its loop.
AllLoopsBounded ==
    \A idx \in DOMAIN steps :
        ~IsNone(steps[idx].loop_begin)
            => Get(steps[idx].loop_begin).max_iterations > 0

\* The loop_begin at idx lies inside no other loop: no loop_end behind it
\* closes a loop that begins before it.
Outermost(idx) ==
    \A j \in DOMAIN steps :
        (j > idx /\ ~IsNone(steps[j].loop_end))
            => \A i \in DOMAIN steps :
                  (i < idx /\ ~IsNone(steps[i].loop_begin))
                      => steps[i].id # Get(steps[j].loop_end).loop_id

\* C35: a validated workflow whose loops all have max_iterations > 0
\* terminates.  A run ends once it leaves its outermost loops for good: the
\* run arrives at the loop_begin of such a loop at most max_iterations + 1
\* times, the last arrival being the forced exit, after which nothing leads
\* back to it.  So in every state of a run the counter of an outermost loop
\* is at most max_iterations + 1.
C35_BoundedLoopsAreLeftForGood ==
    (pc # "idle" /\ Validated /\ AllLoopsBounded)
        => \A idx \in DOMAIN steps :
              (/\ ~IsNone(steps[idx].loop_begin)
               /\ Outermost(idx)
               /\ steps[idx].id \in DOMAIN loop_counters)
                  => loop_counters[steps[idx].id]
                        <= Get(steps[idx].loop_begin).max_iterations + 1

\* The workflow is a list of regular steps that name an extension, and no
\* step of the log failed.
AlwaysSucceeding ==
    /\ \A idx \in DOMAIN steps :
          IsRegular(steps[idx]) /\ ~IsNone(steps[idx].extension)
    /\ NoFailure

\* The ids of the steps with a STEP_SUCCESS event in the log.
Succeeded ==
    { Get(events[i].step_id) : i \in {j \in DOMAIN events :
                                        events[j].event_type = "STEP_SUCCESS"} }

\* The last STEP_SUCCESS event of the step id.
LastSuccess(id) ==
    events[CHOOSE i \in DOMAIN events :
              /\ events[i].event_type = "STEP_SUCCESS"
              /\ events[i].step_id = Some(id)
              /\ \A j \in DOMAIN events :
                    (events[j].event_type = "STEP_SUCCESS" /\ events[j].step_id = Some(id))
                        => j <= i]

\* The Context Store of the run that wrote the whole log without being
\* interrupted, as far as the log tells: the entries of this run, and for a
\* step that succeeded in an earlier run the logged output of its success.
Uninterrupted ==
    [id \in (DOMAIN context) \cup Succeeded |->
        IF id \in DOMAIN context THEN context[id]
        ELSE [stdout    |-> LastSuccess(id).payload.stdout,
              exit_code |-> <<StrOfInt(LastSuccess(id).payload.exit_code)>>]]

\* C36: in a run of a workflow of always-succeeding steps, resumed or not,
\* a step's condition has the value and its extension receives the inputs
\* that the steps succeeded so far give them, whether they succeeded in
\* this run or in the interrupted one.
C36_ResumeIsTransparent ==
    /\ [][ (/\ pc = "exec" /\ pc' = "persist"
            /\ AlwaysSucceeding
            /\ ~IsNone(steps[cur].condition))
           => ((after' = "act")
                  <=> _evaluate_condition(Uninterrupted, Get(steps[cur].condition))) ]_vars
    /\ [][ (pc = "act" /\ ncalls' = ncalls + 1 /\ AlwaysSucceeding)
           => sent' = _interpolate_dict(Uninterrupted, steps[cur].inputs) ]_vars

\* The provider's entitlements list is not empty and no rule's capability
\* matches the step's extension: the checker denies every request of the
\* step, whatever the path.
NeverEntitled(step) ==
    /\ ~IsNone(step.extension)
    /\ wf.provider.entitlements # << >>
    /\ \A i \in DOMAIN wf.provider.entitlements :
          ~_matches_capability(wf.provider.entitlements[i].capability,
                               Get(step.extension))

\* C37: the extension of a step that the entitlements can never allow is
\* not invoked, whatever the step's inputs are.
C37_DeniedExtensionIsNeverInvoked ==
    [][ (pc = "act" /\ NeverEntitled(steps[cur])) => ncalls' = ncalls ]_vars

\* C38: from the seeding to the end of the run the Context Store entries
\* user_inputs and provider are the blocks of the workflow document.
C38_SeededEntriesAreKept ==
    (pc # "idle" /\ ~BeforeSeed /\ Validated)
        => /\ "user_inputs" \in DOMAIN context
           /\ context["user_inputs"] = wf.user_inputs
           /\ "provider" \in DOMAIN context
           /\ context["provider"] = wf.provider

\* The event at j is a STEP_SUCCESS or STEP_FAILURE of the step of event i.
OutcomeOf(log, i, j) ==
    /\ log[j].event_type \in {"STEP_SUCCESS", "STEP_FAILURE"}
    /\ log[j].step_id = log[i].step_id

\* The event behind the one at i, if the run appended one, is an outcome of
\* the same step, and the event behind that is not another one.
StartFollowed(log, i) ==
    i < Len(log)
        => /\ OutcomeOf(log, i, i + 1)
           /\ (i + 2 <= Len(log)) => ~OutcomeOf(log, i, i + 2)

\* Some step of that id names an extension.
HasExtension(id) ==
    \E idx \in DOMAIN steps : Some(steps[idx].id) = id /\ ~IsNone(steps[idx].extension)

\* A run is under way and has its event log.
Running == pc # "idle" /\ ~BeforeSeed /\ Validated

\* C39 as stated: in the events of a run every STEP_START, of a placeholder
\* step too, is followed by exactly one STEP_SUCCESS or STEP_FAILURE of the
\* same step before anything else is appended.
C39_EveryStartHasItsOutcome ==
    Running
        => \A i \in DOMAIN OwnEvents :
              OwnEvents[i].event_type = "STEP_START" => StartFollowed(OwnEvents, i)

\* C39, amended: in the events of a run every STEP_START of a step that
\* names an extension is followed by exactly one STEP_SUCCESS or
\* STEP_FAILURE of the same step before anything else is appended.
C39_ExtensionStartsHaveTheirOutcome ==
    Running
        => \A i \in DOMAIN OwnEvents :
              (OwnEvents[i].event_type = "STEP_START" /\ HasExtension(OwnEvents[i].step_id))
                  => StartFollowed(OwnEvents, i)

\* A run went on after the outcome of a started step.
C39_Witness ==
    /\ Running
    /\ \E i \in DOMAIN OwnEvents :
          /\ OwnEvents[i].event_type = "STEP_START"
          /\ HasExtension(OwnEvents[i].step_id)
          /\ i + 2 <= Len(OwnEvents)
          /\ OwnEvents[i + 1].event_type = "STEP_FAILURE"
          /\ OwnEvents[i + 2].event_type = "STEP_START"

\* A linear workflow: regular steps of distinct ids that all name an
\* extension, without conditions and failure policies.
Linear ==
    /\ \A idx \in DOMAIN steps :
          /\ IsRegular(steps[idx])
          /\ ~IsNone(steps[idx].extension)
          /\ IsNone(steps[idx].condition)
          /\ IsNone(steps[idx].on_failure)
    /\ \A i, j \in DOMAIN steps : steps[i].id = steps[j].id => i = j

\* The ids of the STEP_SUCCESS events of a log, in the order of the log.
RECURSIVE SuccessIds(_)
SuccessIds(log) ==
    IF log = << >> THEN << >>
    ELSE (IF Head(log).event_type = "STEP_SUCCESS"
          THEN <<Get(Head(log).step_id)>> ELSE << >>) \o SuccessIds(Tail(log))

\* C40: when a run of a linear workflow whose calls all succeeded returns
\* after WORKFLOW_COMPLETE, be it the first run or a --resume run after
\* runs killed between appends, the log holds exactly one STEP_SUCCESS per
\* step, in document order.
C40_OneSuccessPerStepInOrder ==
    (pc = "idle" /\ result = "true" /\ Linear /\ NoFailure)
        => /\ disk.state = "ok"
           /\ SuccessIds(load(disk)) = [idx \in DOMAIN steps |-> steps[idx].id]

\* A --resume run completed a linear workflow of which an earlier, killed
\* run had executed the first step.
C40_Witness ==
    /\ pc = "idle" /\ result = "true" /\ Linear /\ NoFailure
    /\ resume
    /\ Len(steps) = 2
    /\ ncalls = 1
    /\ Len(load(log0)) = 3
====
